---- MODULE Spec2Model ----
(***************************************************************************)
(* State-machine model of the factory-based barcode scanner                *)
(* (createBarcodeScanner) and of the decode channel it drives              *)
(* (createWorker).                                                         *)
(*                                                                         *)
(* The scanner runs on one cooperative thread.  Every action below is one  *)
(* run-to-completion step of that thread: a public call up to its first    *)
(* await, the continuation of an await, a frame callback, a worker message *)
(* or a timer.  Calls that suspend (start, tick) are kept as counts of     *)
(* invocations per suspension point, because the invocations of one        *)
(* function share all of their state through the `state` record.           *)
(*                                                                         *)
(* Time is kept relative: `elapsed` is performance.now() - decodeFrameTs,  *)
(* saturated just above the rate-limit threshold, which is exact for the   *)
(* only comparison the code makes with it.  The load and decode timers are *)
(* wall-clock deadlines far longer than a frame period; their expiry is an *)
(* event that may happen at any moment while the timer is armed.           *)
(***************************************************************************)
EXTENDS Integers, Sequences, FiniteSets

\* ------------------------------------------------------------------ bounds
MaxStarts == 2      \* start() calls that may be suspended at the same time
MaxLoops == 2       \* tick invocations (frame-scheduler loops) alive at once
MaxStreams == 2     \* media streams whose tracks are live at the same time
MaxCalls == 2        \* decode() calls made on the decode channel on its own
\* largest side of the small video frames
MaxSide == 8
\* bits of the significand of a number
Precision == 8
\* roundings a result may be away from the exact one, in units of the last
\* place
Tolerance == 4

\* ------------------------------------------------------- program constants
scanRate == 24

Undefined == "undefined"
WORKER_LOAD_TIMEOUT_CAUSE == "WorkerLoadTimeout"
WORKER_LOAD_FAILURE_CAUSE == "WorkerLoadFailure"
WORKER_DECODE_TIMEOUT_CAUSE == "DecodeTimeout"

\* new Error(message): the message is set, the cause is not
NewError(message) == [message |-> message, cause |-> Undefined]

NoError == [message |-> "", cause |-> Undefined]

\* what a caller-supplied callback throws or rejects with
CallbackError == NewError("callback")

\* the payload of a decode response: null, or a detected symbol with its
\* raw value and its corner points in scan-area-local coordinates
Null == [rawValue |-> "", cornerPoints |-> <<>>]

Point(px, py) == [x |-> px, y |-> py]

Symbols ==
    {[rawValue |-> "ABC123",
      cornerPoints |-> <<Point(10, 10), Point(50, 10), Point(50, 50),
                         Point(10, 50)>>],
     [rawValue |-> "XYZ",
      cornerPoints |-> <<Point(20, 5), Point(60, 25), Point(45, 70),
                         Point(5, 40)>>]}

\* `detect(...)[0]` of a frame without a symbol: undefined
Missing == [rawValue |-> "undefined", cornerPoints |-> <<>>]

Payloads == Symbols \cup {Null, Missing}

\* `if (data)`
Truthy(data) == data \notin {Null, Missing}

NoArea == [height |-> 0, width |-> 0, x |-> 0, y |-> 0]

NoDelivery == [payload |-> Null, calls |-> <<>>]

\* the uuids of the decode() calls made on the channel on its own
Uuids == 1..MaxCalls

\* the uuid of a request that no decode() call has made
ForeignUuids == {0}

WorkerUuids == Uuids \cup ForeignUuids

NoCall == [pc |-> "idle", posted |-> FALSE, result |-> Null,
           err |-> NoError, settles |-> 0]

\* ------------------------------------------------------------- environment
\* <<videoWidth, videoHeight>> of the element: no media yet, or a frame size
NoVideo == <<0, 0>>
VideoSizes == {NoVideo, <<640, 480>>}

\* clock advances between two steps of the thread, in ms
ClockSteps == {21}

\* saturation of the relative clocks: the first value at which the rate
\* limit no longer skips
ElapsedCap == (1000 \div scanRate) + 1

Min(a, b) == IF a < b THEN a ELSE b

\* Math.round for a non-negative rational n/d
Round(n, d) == (2 * n + d) \div (2 * d)

\* Math.round((2 / 3) * m) taken as Math.floor
getScanAreaTruncated(size) ==
    LET s == (2 * Min(size[1], size[2])) \div 3
    IN  [height |-> s, width |-> s,
         x |-> Round(size[1] - s, 2), y |-> Round(size[2] - s, 2)]

getScanArea(size) ==
    LET s == Round(2 * Min(size[1], size[2]), 3)
    IN  [height |-> s, width |-> s,
         x |-> Round(size[1] - s, 2), y |-> Round(size[2] - s, 2)]

\* a BarcodeDecoder after its constructor, with the media element and the
\* worker it uses: the play() call in progress, the frame callbacks that
\* are requested, the requests the worker has not answered, its responses
\* that are not dispatched yet and the calls of onDecode
NewDecoder ==
    [isDestroyed |-> FALSE, isProcessed |-> FALSE, pc |-> "idle",
     requested |-> 0, srcObject |-> FALSE, paused |-> TRUE, posted |-> 0,
     asked |-> 0, responses |-> <<>>, onDecode |-> <<>>, last |-> "new"]

\* a BarcodeScanner after its constructor, with its media element: the
\* start() call in progress, the frame callbacks that are requested, the
\* decode() promise of an admitted frame and the clock since
\* decodeFrameRequestTimestamp
NewScanner ==
    [isDestroyed |-> FALSE, isDecodeFrameProcessed |-> FALSE, pc |-> "idle",
     requested |-> 0, srcObject |-> FALSE, paused |-> TRUE,
     decoding |-> FALSE, elapsed |-> 0, last |-> "new"]

NoProbe == [fn |-> "none", args |-> <<>>, result |-> <<>>,
            returned |-> FALSE]

StartPcs == {"access", "stream", "play", "playAborted"}
\* where a tick invocation waits: for its frame callback, in decode() for
\* workerReady, in decode() for the worker's response, or for the promise of
\* handleDecodeSuccess / handleDecodeFailure
TickPcs == {"scheduled", "ready", "response", "onSuccess", "onFailure"}

VARIABLES
    isDecodeFrameProcessed, isDestroyed, isVideoActive, isVideoPaused,
    isWorkerLoadFailure, scanArea,
    elapsed,        \* performance.now() - state.decodeFrameTs, saturated
    srcObject,      \* state.video.srcObject: 0 (null) or a stream id
    live,           \* streams acquired by getUserMedia whose tracks run
    videoSize,      \* <<videoWidth, videoHeight>>
    videoReady,     \* state.video.readyState > 1
    starts,         \* start() invocations suspended at each await
    ticks,          \* tick invocations: pending frame callback or await
    workerReady,    \* the workerReady promise of createWorker
    terminated,     \* number of worker.terminate() calls
    op,             \* the step taken last and the branch it took
    fired,          \* hooks, callbacks and platform calls made by that step
    sinceAdmit,     \* clock since the frame admitted last (-1: none yet)
    gap,            \* set by a step that admits a frame: the clock since the
                    \* frame admitted before it (-1: no such frame)
    delivered,      \* set by a step that receives a decode response: the
                    \* payload and the calls of the caller's callbacks
    calls,          \* the decode() calls made on the channel by their uuid:
                    \* position, settlement and number of res / rej calls
    listeners,      \* uuids whose handleMessage is registered on the worker
    timers,         \* uuids whose decode timer is armed
    asked,          \* decode requests the worker has not answered yet
    inbox,          \* decode responses posted by the worker, not yet
                    \* dispatched
    readyListener,  \* the handleMessage of workerReady is registered
    loadTimer,      \* the load timer is armed
    readySettles,   \* number of res / rej calls on workerReady
    initBox,        \* 'init' messages posted by the worker, not yet
                    \* dispatched, oldest first
    workerPc,       \* the worker's progress through its 'config' handler
    barcodeDetector,\* the worker's detector is set (not null)
    probe,          \* the last call of a function of the library that was
                    \* evaluated on its own: name, arguments and result
    decoder,        \* a BarcodeDecoder with its video element and worker
    scanner         \* a BarcodeScanner (class) with its video element

stateVars == <<isDecodeFrameProcessed, isDestroyed, isVideoActive,
               isVideoPaused, isWorkerLoadFailure, scanArea, elapsed>>
videoVars == <<srcObject, live, videoSize, videoReady>>
chanVars == <<calls, listeners, timers, asked, inbox, readyListener,
              loadTimer, readySettles, initBox, workerPc, barcodeDetector>>

\* what the steps of the scanner leave alone
otherVars == <<chanVars, probe, decoder, scanner>>

\* what the evaluation of a function on its own leaves alone
modelVars == <<stateVars, videoVars, starts, ticks, workerReady, terminated,
               op, fired, sinceAdmit, gap, delivered, chanVars>>

vars == <<modelVars, probe, decoder, scanner>>

Count(f) == LET RECURSIVE Sum(_)
                Sum(S) == IF S = {} THEN 0
                          ELSE LET k == CHOOSE k \in S : TRUE
                               IN  f[k] + Sum(S \ {k})
            IN  Sum(DOMAIN f)

Inc(f, k) == [f EXCEPT ![k] = @ + 1]
Dec(f, k) == [f EXCEPT ![k] = @ - 1]
Move(f, a, b) == Inc(Dec(f, a), b)

\* the state right after createBarcodeScanner has returned
Created ==
    /\ isDecodeFrameProcessed = FALSE
    /\ isDestroyed = FALSE
    /\ isVideoActive = FALSE
    /\ isVideoPaused = FALSE
    /\ isWorkerLoadFailure = FALSE
    /\ videoSize = NoVideo
    /\ scanArea = getScanArea(videoSize)
    /\ elapsed = 0
    /\ srcObject = 0
    /\ live = {}
    /\ videoReady = FALSE
    /\ starts = [p \in StartPcs |-> 0]
    /\ ticks = [p \in TickPcs |-> 0]
    /\ workerReady = [settled |-> "pending", err |-> NoError]
    /\ terminated = 0
    /\ op = "create"
    /\ fired = <<"onCreate">>
    /\ sinceAdmit = -1
    /\ gap = -1
    /\ delivered = NoDelivery
    /\ calls = [c \in Uuids |-> NoCall]
    /\ listeners = {}
    /\ timers = {}
    /\ asked = {}
    /\ inbox = {}
    /\ readyListener = TRUE
    /\ loadTimer = TRUE
    /\ readySettles = 0
    /\ initBox = <<>>
    /\ workerPc = "config"
    /\ barcodeDetector = FALSE
    /\ decoder = NewDecoder
    /\ scanner = NewScanner

Init ==
    /\ Created
    /\ probe = NoProbe

\* ------------------------------------------------- lifecycle controller
\* Assigning video.srcObject runs the media element's load algorithm: it
\* rejects the play() promises that are still pending and puts the element
\* back to readyState HAVE_NOTHING with no frame size.
AbortPlays(st) == [st EXCEPT !["playAborted"] = @ + st["play"], !["play"] = 0]

AssignSrcObject(s) ==
    /\ srcObject' = s
    /\ videoReady' = FALSE
    /\ videoSize' = NoVideo

\* srcObject = null without track.stop()
DetachStreamOnly ==
    IF srcObject # 0
    THEN /\ live' = live
         /\ AssignSrcObject(0)
         /\ starts' = AbortPlays(starts)
    ELSE UNCHANGED <<videoVars, starts>>

\* track.stop() for every track of the attached stream, srcObject = null
ReleaseStream ==
    IF srcObject # 0
    THEN /\ live' = live \ {srcObject}
         /\ AssignSrcObject(0)
         /\ starts' = AbortPlays(starts)
    ELSE UNCHANGED <<videoVars, starts>>

stopReturnsEarly == isVideoActive = FALSE \/ isDestroyed

\* the body of stop() without the release of the stream
stopBodyKeepingStream ==
    IF stopReturnsEarly
    THEN UNCHANGED <<isVideoActive, isVideoPaused, videoVars, starts>>
    ELSE /\ UNCHANGED <<videoVars, starts>>
         /\ isVideoActive' = FALSE
         /\ isVideoPaused' = FALSE

\* the body of stop(); it has no await, so it runs to completion inside
\* the caller's step
stopBody ==
    IF stopReturnsEarly
    THEN UNCHANGED <<isVideoActive, isVideoPaused, videoVars, starts>>
    ELSE /\ ReleaseStream
         /\ isVideoActive' = FALSE
         /\ isVideoPaused' = FALSE

stopFired == IF stopReturnsEarly THEN <<>> ELSE <<"onBeforeStop", "onStop">>

stop ==
    /\ gap' = -1
    /\ UNCHANGED otherVars
    /\ delivered' = NoDelivery
    /\ stopBody
    /\ op' = IF stopReturnsEarly THEN "stop:noop" ELSE "stop"
    /\ fired' = stopFired
    /\ UNCHANGED <<isDecodeFrameProcessed, isDestroyed, isWorkerLoadFailure,
                   scanArea, elapsed, ticks, workerReady, terminated,
                   sinceAdmit>>

\* destroy() without its early return
destroyNeverReturnsEarly == FALSE

destroyReturnsEarly == isDestroyed

destroy ==
    IF destroyReturnsEarly
    THEN /\ op' = "destroy:noop"
         /\ gap' = -1
         /\ UNCHANGED otherVars
         /\ delivered' = NoDelivery
         /\ fired' = <<>>
         /\ UNCHANGED <<stateVars, videoVars, starts, ticks, workerReady,
                        terminated, sinceAdmit>>
    ELSE /\ stopBody
         /\ terminated' = terminated + 1
         /\ isDestroyed' = TRUE
         /\ op' = "destroy"
         /\ gap' = -1
         /\ UNCHANGED otherVars
         /\ delivered' = NoDelivery
         /\ fired' = stopFired \o <<"terminate">>
         /\ UNCHANGED <<isDecodeFrameProcessed, isWorkerLoadFailure,
                        scanArea, elapsed, ticks, workerReady, sinceAdmit>>

\* the guard of pause() without the test of isVideoPaused
pauseReturnsEarlyUnlessPaused == isVideoActive = FALSE \/ isDestroyed

\* the guard of pause() without the test of isVideoActive
pauseReturnsEarlyUnlessInactive == isVideoPaused \/ isDestroyed

pauseReturnsEarly == isVideoActive = FALSE \/ isVideoPaused \/ isDestroyed

pause ==
    /\ gap' = -1
    /\ UNCHANGED otherVars
    /\ delivered' = NoDelivery
    /\ IF pauseReturnsEarly
       THEN /\ op' = "pause:noop"
            /\ fired' = <<>>
            /\ UNCHANGED <<isVideoPaused, videoVars, starts>>
       ELSE /\ ReleaseStream
            /\ isVideoPaused' = TRUE
            /\ op' = "pause"
            /\ fired' = <<"onBeforePause", "onPause">>
    /\ UNCHANGED <<isDecodeFrameProcessed, isDestroyed, isVideoActive,
                   isWorkerLoadFailure, scanArea, elapsed, ticks,
                   workerReady, terminated, sinceAdmit>>

\* start() up to `await getCameraAccess()`
startCall ==
    /\ gap' = -1
    /\ UNCHANGED otherVars
    /\ delivered' = NoDelivery
    /\ Count(starts) < MaxStarts
    /\ starts' = Inc(starts, "access")
    /\ op' = "start"
    /\ fired' = <<"onBeforeStart">>
    /\ UNCHANGED <<stateVars, videoVars, ticks, workerReady, terminated,
                   sinceAdmit>>

\* start() without the test of video.srcObject
startAccessAlwaysRequests(hasAccess) ==
    /\ gap' = -1
    /\ UNCHANGED otherVars
    /\ delivered' = NoDelivery
    /\ starts["access"] > 0
    /\ IF ~hasAccess
       THEN /\ starts' = Dec(starts, "access")
            /\ op' = "start:noAccess"
            /\ fired' = <<"throw:No camera access">>
       ELSE /\ starts' = Move(starts, "access", "stream")
            /\ op' = "start:getUserMedia"
            /\ fired' = <<"getUserMedia">>
    /\ UNCHANGED <<stateVars, videoVars, ticks, workerReady, terminated,
                   sinceAdmit>>

\* start() testing the camera access after the request of the stream
startAccessCheckedLate(hasAccess) ==
    /\ gap' = -1
    /\ UNCHANGED otherVars
    /\ delivered' = NoDelivery
    /\ starts["access"] > 0
    /\ IF srcObject # 0
       THEN /\ starts' = Dec(starts, "access")
            /\ op' = "start:attached"
            /\ fired' = <<>>
       ELSE /\ starts' = Move(starts, "access", "stream")
            /\ op' = IF hasAccess THEN "start:getUserMedia"
                     ELSE "start:noAccess"
            /\ fired' = <<"getUserMedia">>
    /\ UNCHANGED <<stateVars, videoVars, ticks, workerReady, terminated,
                   sinceAdmit>>

\* start() from the result of getCameraAccess() to its next await
startAccess(hasAccess) ==
    /\ gap' = -1
    /\ UNCHANGED otherVars
    /\ delivered' = NoDelivery
    /\ starts["access"] > 0
    /\ IF ~hasAccess
       THEN /\ starts' = Dec(starts, "access")
            /\ op' = "start:noAccess"
            /\ fired' = <<"throw:No camera access">>
       ELSE IF srcObject # 0
       THEN /\ starts' = Dec(starts, "access")
            /\ op' = "start:attached"
            /\ fired' = <<>>
       ELSE /\ starts' = Move(starts, "access", "stream")
            /\ op' = "start:getUserMedia"
            /\ fired' = <<"getUserMedia">>
    /\ UNCHANGED <<stateVars, videoVars, ticks, workerReady, terminated,
                   sinceAdmit>>

\* the stream a getUserMedia call resolves with: one that is not live yet
NewStream == CHOOSE s \in 1..MaxStreams :
                 s \notin live /\ \A t \in 1..(s - 1) : t \in live

\* start() from the settlement of getUserMedia() to `await video.play()`
startStream(resolved) ==
    /\ gap' = -1
    /\ UNCHANGED otherVars
    /\ delivered' = NoDelivery
    /\ starts["stream"] > 0
    /\ IF resolved
       THEN /\ Cardinality(live) < MaxStreams
            /\ live' = live \cup {NewStream}
            /\ AssignSrcObject(NewStream)
            /\ starts' = Inc(AbortPlays(Dec(starts, "stream")), "play")
            /\ op' = "start:play"
            /\ fired' = <<"play">>
       ELSE /\ starts' = Dec(starts, "stream")
            /\ op' = "start:noStream"
            /\ fired' = <<"throw">>
            /\ UNCHANGED videoVars
    /\ UNCHANGED <<stateVars, ticks, workerReady, terminated, sinceAdmit>>

\* start() from the settlement of video.play() to its end, handleDecode's
\* requestFrame(tick) included; play() resolves once playback has begun,
\* which takes a ready element, and rejects when it was aborted or refused
startPlay(pc, resolved) ==
    /\ gap' = -1
    /\ UNCHANGED otherVars
    /\ delivered' = NoDelivery
    /\ pc \in {"play", "playAborted"}
    /\ starts[pc] > 0
    /\ starts' = Dec(starts, pc)
    /\ IF resolved
       THEN /\ pc = "play"
            /\ videoReady
            /\ Count(ticks) < MaxLoops
            /\ isVideoActive' = TRUE
            /\ isVideoPaused' = FALSE
            /\ scanArea' = getScanArea(videoSize)
            /\ ticks' = Inc(ticks, "scheduled")
            /\ op' = "start:done"
            /\ fired' = <<"onStart", "requestFrame">>
       ELSE /\ op' = "start:noPlay"
            /\ fired' = <<"throw">>
            /\ UNCHANGED <<isVideoActive, isVideoPaused, scanArea, ticks>>
    /\ UNCHANGED <<isDecodeFrameProcessed, isDestroyed, isWorkerLoadFailure,
                   elapsed, videoVars, workerReady, terminated, sinceAdmit>>

\* ------------------------------------------------------ frame scheduler
\* performance.now() - state.decodeFrameTs < 1000 / state.scanRate
rateLimited == elapsed * scanRate < 1000

\* the admission check without its test of readyState
tickSkipsIgnoringReadyState == rateLimited \/ isDecodeFrameProcessed

\* the admission check without its in-flight test
tickSkipsIgnoringInFlight == rateLimited \/ ~videoReady

\* the admission check without its rate limit
tickSkipsIgnoringRate == isDecodeFrameProcessed \/ ~videoReady

tickSkips == rateLimited \/ isDecodeFrameProcessed \/ ~videoReady

\* the terminal check testing isDestroyed only
tickReturnsUnlessStopped == isDestroyed

\* the terminal check of tick
tickReturns == isDestroyed \/ isVideoActive = FALSE

\* a frame callback runs tick() up to `await decode(imageData)`, which
\* suspends at decode's `await workerReady`
tick ==
    /\ ticks["scheduled"] > 0
    /\ IF tickReturns
       THEN /\ ticks' = Dec(ticks, "scheduled")
            /\ op' = "tick:end"
            /\ fired' = <<>>
            /\ gap' = -1
            /\ UNCHANGED otherVars
            /\ delivered' = NoDelivery
            /\ UNCHANGED <<isDecodeFrameProcessed, scanArea, sinceAdmit>>
       ELSE IF tickSkips
       THEN /\ op' = "tick:skip"
            /\ fired' = <<"requestFrame">>
            /\ gap' = -1
            /\ UNCHANGED otherVars
            /\ delivered' = NoDelivery
            /\ UNCHANGED <<isDecodeFrameProcessed, scanArea, ticks,
                           sinceAdmit>>
       ELSE /\ isDecodeFrameProcessed' = TRUE
            /\ scanArea' = getScanArea(videoSize)
            /\ ticks' = Move(ticks, "scheduled", "ready")
            /\ gap' = sinceAdmit
            /\ UNCHANGED otherVars
            /\ delivered' = NoDelivery
            /\ sinceAdmit' = 0
            /\ op' = "tick:admit"
            /\ fired' = <<"onBeforeDecode", "getImageData", "decode">>
    /\ UNCHANGED <<isDestroyed, isVideoActive, isVideoPaused,
                   isWorkerLoadFailure, elapsed, videoVars, starts,
                   workerReady, terminated>>

\* the test of tick's catch block
isWorkerLoadError(err) ==
    err.cause = WORKER_LOAD_FAILURE_CAUSE \/ err.cause = WORKER_LOAD_TIMEOUT_CAUSE

\* the catch and finally blocks with every caught error taken as a hard
\* failure
tickFinallyAllHard(from, caught, err, evs) ==
    LET failure == isWorkerLoadFailure \/ caught
    IN  /\ isWorkerLoadFailure' = failure
        /\ IF failure = FALSE
           THEN /\ isDecodeFrameProcessed' = FALSE
                /\ elapsed' = 0
                /\ ticks' = Move(ticks, from, "scheduled")
           ELSE /\ ticks' = Dec(ticks, from)
                /\ UNCHANGED <<isDecodeFrameProcessed, elapsed>>
        /\ fired' = evs \o (IF caught THEN <<"warn">> ELSE <<>>)
                        \o <<"onDecode">>
                        \o (IF failure = FALSE THEN <<"requestFrame">>
                                               ELSE <<>>)

\* the post-decode hook run at the end of the try block instead of the
\* finally block
tickFinallyHookInTry(from, caught, err, evs) ==
    LET failure == isWorkerLoadFailure \/ (caught /\ isWorkerLoadError(err))
    IN  /\ isWorkerLoadFailure' = failure
        /\ IF failure = FALSE
           THEN /\ isDecodeFrameProcessed' = FALSE
                /\ elapsed' = 0
                /\ ticks' = Move(ticks, from, "scheduled")
           ELSE /\ ticks' = Dec(ticks, from)
                /\ UNCHANGED <<isDecodeFrameProcessed, elapsed>>
        /\ fired' = evs \o (IF caught THEN <<"warn">> ELSE <<"onDecode">>)
                        \o (IF failure = FALSE THEN <<"requestFrame">>
                                               ELSE <<>>)

\* the catch block (when the try block threw `err`) and the finally block of
\* a tick that was suspended at `from`; `evs` is what the step did before
tickFinally(from, caught, err, evs) ==
    LET failure == isWorkerLoadFailure \/ (caught /\ isWorkerLoadError(err))
    IN  /\ isWorkerLoadFailure' = failure
        /\ IF failure = FALSE
           THEN /\ isDecodeFrameProcessed' = FALSE
                /\ elapsed' = 0
                /\ ticks' = Move(ticks, from, "scheduled")
           ELSE /\ ticks' = Dec(ticks, from)
                /\ UNCHANGED <<isDecodeFrameProcessed, elapsed>>
        /\ fired' = evs \o (IF caught THEN <<"warn">> ELSE <<>>)
                        \o <<"onDecode">>
                        \o (IF failure = FALSE THEN <<"requestFrame">>
                                               ELSE <<>>)

\* decode() resumes from `await workerReady`: it posts the request, registers
\* its listener and arms its timer, or rejects with the readiness error
decodeReady ==
    /\ gap' = -1
    /\ UNCHANGED otherVars
    /\ delivered' = NoDelivery
    /\ ticks["ready"] > 0
    /\ workerReady.settled # "pending"
    /\ IF workerReady.settled = "resolved"
       THEN /\ ticks' = Move(ticks, "ready", "response")
            /\ op' = "decode:post"
            /\ fired' = <<"postMessage">>
            /\ UNCHANGED <<isDecodeFrameProcessed, isWorkerLoadFailure,
                           elapsed>>
       ELSE /\ tickFinally("ready", TRUE, workerReady.err, <<>>)
            /\ op' = "decode:notReady"
    /\ UNCHANGED <<isDestroyed, isVideoActive, isVideoPaused, scanArea,
                   videoVars, starts, workerReady, terminated, sinceAdmit>>

\* Math.max(...values) and Math.min(...values) of a non-empty array
MaxOf(values) ==
    LET RECURSIVE Fold(_)
        Fold(i) == IF i = 1 THEN values[1]
                   ELSE LET m == Fold(i - 1)
                        IN  IF values[i] > m THEN values[i] ELSE m
    IN  Fold(Len(values))

MinOf(values) ==
    LET RECURSIVE Fold(_)
        Fold(i) == IF i = 1 THEN values[1]
                   ELSE LET m == Fold(i - 1)
                        IN  IF values[i] < m THEN values[i] ELSE m
    IN  Fold(Len(values))

\* the area without the origin of the scan area
decodeAreaLocal(cornerPoints, area) ==
    LET cornerPointsX == [i \in 1..Len(cornerPoints) |-> cornerPoints[i].x]
        cornerPointsY == [i \in 1..Len(cornerPoints) |-> cornerPoints[i].y]
    IN  [height |-> MaxOf(cornerPointsY) - MinOf(cornerPointsY),
         width |-> MaxOf(cornerPointsX) - MinOf(cornerPointsX),
         x |-> MinOf(cornerPointsX),
         y |-> MinOf(cornerPointsY)]

\* the area computed from the corner points and state.scanArea
decodeArea(cornerPoints, area) ==
    LET cornerPointsX == [i \in 1..Len(cornerPoints) |-> cornerPoints[i].x]
        cornerPointsY == [i \in 1..Len(cornerPoints) |-> cornerPoints[i].y]
    IN  [height |-> MaxOf(cornerPointsY) - MinOf(cornerPointsY),
         width |-> MaxOf(cornerPointsX) - MinOf(cornerPointsX),
         x |-> MinOf(cornerPointsX) + area.x,
         y |-> MinOf(cornerPointsY) + area.y]

Call(callback, data, area) ==
    [callback |-> callback, data |-> data, area |-> area]

\* the two branches without the `else`
callbacksInvokedFallThrough(data, area) ==
    (IF Truthy(data)
     THEN <<Call("handleDecodeSuccess", data.rawValue,
                 decodeArea(data.cornerPoints, area))>>
     ELSE <<>>) \o <<Call("handleDecodeFailure", "", NoArea)>>

\* the try block after `await decode(imageData)`: the calls it makes of the
\* caller's callbacks
callbacksInvoked(data, area) ==
    IF Truthy(data)
    THEN <<Call("handleDecodeSuccess", data.rawValue,
                decodeArea(data.cornerPoints, area))>>
    ELSE <<Call("handleDecodeFailure", "", NoArea)>>

CallbackNames(invoked) == [i \in 1..Len(invoked) |-> invoked[i].callback]

PayloadName(data) == IF Truthy(data) THEN "symbol" ELSE "null"

\* the worker's response with the request's uuid: decode() resolves and the
\* tick calls the caller's callback, which returns or throws
decodeResponse(data, throws) ==
    /\ gap' = -1
    /\ UNCHANGED otherVars
    /\ ticks["response"] > 0
    /\ terminated = 0
    /\ LET invoked == callbacksInvoked(data, scanArea)
           pc == IF Truthy(data) THEN "onSuccess" ELSE "onFailure"
       IN  /\ delivered' = [payload |-> data, calls |-> invoked]
           /\ IF throws
              THEN /\ tickFinally("response", TRUE, CallbackError,
                                  CallbackNames(invoked))
                   /\ op' = "decode:" \o PayloadName(data) \o ":throw"
              ELSE /\ ticks' = Move(ticks, "response", pc)
                   /\ op' = "decode:" \o PayloadName(data)
                   /\ fired' = CallbackNames(invoked)
                   /\ UNCHANGED <<isDecodeFrameProcessed,
                                  isWorkerLoadFailure, elapsed>>
    /\ UNCHANGED <<isDestroyed, isVideoActive, isVideoPaused, scanArea,
                   videoVars, starts, workerReady, terminated, sinceAdmit>>

\* the decode timer fires: the listener is removed and decode() rejects
decodeTimeout ==
    /\ gap' = -1
    /\ UNCHANGED otherVars
    /\ delivered' = NoDelivery
    /\ ticks["response"] > 0
    /\ tickFinally("response", TRUE, NewError(WORKER_DECODE_TIMEOUT_CAUSE),
                   <<>>)
    /\ op' = "decode:timeout"
    /\ UNCHANGED <<isDestroyed, isVideoActive, isVideoPaused, scanArea,
                   videoVars, starts, workerReady, terminated, sinceAdmit>>

\* the promise returned by the caller's callback settles
callbackSettled(pc, resolved) ==
    /\ gap' = -1
    /\ UNCHANGED otherVars
    /\ delivered' = NoDelivery
    /\ pc \in {"onSuccess", "onFailure"}
    /\ ticks[pc] > 0
    /\ tickFinally(pc, ~resolved, CallbackError, <<>>)
    /\ op' = pc \o (IF resolved THEN ":resolved" ELSE ":rejected")
    /\ UNCHANGED <<isDestroyed, isVideoActive, isVideoPaused, scanArea,
                   videoVars, starts, workerReady, terminated, sinceAdmit>>

\* --------------------------------------------------------- decode channel
\* Readiness as the scanner sees it: the first 'init' message the listener
\* of workerReady receives settles it, unless the load timer fired first.
workerInit(status) ==
    /\ gap' = -1
    /\ UNCHANGED otherVars
    /\ delivered' = NoDelivery
    /\ workerReady.settled = "pending"
    /\ terminated = 0
    /\ workerReady' =
           IF status = "success"
           THEN [settled |-> "resolved", err |-> NoError]
           ELSE [settled |-> "rejected",
                 err |-> NewError(WORKER_LOAD_FAILURE_CAUSE)]
    /\ op' = "init:" \o status
    /\ fired' = <<>>
    /\ UNCHANGED <<stateVars, videoVars, starts, ticks, terminated,
                   sinceAdmit>>

\* the load timer fires before any 'init' message
workerLoadTimeout ==
    /\ gap' = -1
    /\ UNCHANGED otherVars
    /\ delivered' = NoDelivery
    /\ workerReady.settled = "pending"
    /\ workerReady' = [settled |-> "rejected",
                       err |-> NewError(WORKER_LOAD_TIMEOUT_CAUSE)]
    /\ op' = "init:timeout"
    /\ fired' = <<>>
    /\ UNCHANGED <<stateVars, videoVars, starts, ticks, terminated,
                   sinceAdmit>>

\* --------------------------------------- decode channel, request by request
\* The channel driven by any caller: each decode() call has its own uuid,
\* message listener and timer; the worker answers the requests it was asked
\* in any order and its responses are dispatched to every listener.
scannerVars == <<stateVars, videoVars, starts, ticks, sinceAdmit>>

ChannelStep(name, events) ==
    /\ op' = name
    /\ fired' = events
    /\ gap' = -1
    /\ delivered' = NoDelivery
    /\ UNCHANGED <<scannerVars, probe, decoder, scanner>>

\* res(data) on the promise of a call
Res(call, data) ==
    IF call.pc = "posted"
    THEN [call EXCEPT !.pc = "resolved", !.result = data,
                      !.settles = call.settles + 1]
    ELSE [call EXCEPT !.settles = call.settles + 1]

\* rej(err) on the promise of a call, or a throw out of decode()
Rej(call, err) ==
    IF call.pc \in {"ready", "posted"}
    THEN [call EXCEPT !.pc = "rejected", !.err = err,
                      !.settles = call.settles + 1]
    ELSE [call EXCEPT !.settles = call.settles + 1]

readyVars == <<readyListener, loadTimer, readySettles, initBox>>

workerVars == <<workerPc, barcodeDetector>>

\* the worker's 'config' handler: it sets the native detector and reports
\* success; or prepares the WASM module, whose postRun reports success
\* later, and sets the ponyfill; a throw on the way reports failure
wkConfig(path) ==
    /\ workerPc = "config"
    /\ terminated = 0
    /\ path \in {"native", "ponyfill", "ponyfillThrows", "throws"}
    /\ barcodeDetector' = (path \in {"native", "ponyfill"})
    /\ workerPc' = IF path \in {"ponyfill", "ponyfillThrows"}
                   THEN "postRun" ELSE "done"
    /\ initBox' = IF path = "native" THEN Append(initBox, "success")
                  ELSE IF path = "ponyfill" THEN initBox
                  ELSE Append(initBox, "failure")
    /\ ChannelStep("worker:config", <<>>)
    /\ UNCHANGED <<calls, listeners, timers, asked, inbox, readyListener,
                   loadTimer, readySettles, workerReady, terminated>>

\* postRun of the WASM module: sendInitResponse('success')
wkPostRun ==
    /\ workerPc = "postRun"
    /\ terminated = 0
    /\ workerPc' = "done"
    /\ initBox' = Append(initBox, "success")
    /\ ChannelStep("worker:postRun", <<>>)
    /\ UNCHANGED <<calls, listeners, timers, asked, inbox, readyListener,
                   loadTimer, readySettles, barcodeDetector, workerReady,
                   terminated>>

\* res / rej on workerReady: a settled promise keeps its settlement
SettleReady(outcome) ==
    /\ workerReady' = IF workerReady.settled = "pending" THEN outcome
                      ELSE workerReady
    /\ readySettles' = readySettles + 1

ReadyOutcome(status) ==
    IF status = "success"
    THEN [settled |-> "resolved", err |-> NoError]
    ELSE [settled |-> "rejected", err |-> NewError(WORKER_LOAD_FAILURE_CAUSE)]

\* handleMessage of workerReady that leaves the load timer armed
chInitKeepingTimer ==
    /\ initBox # <<>>
    /\ terminated = 0
    /\ initBox' = Tail(initBox)
    /\ IF readyListener
       THEN /\ loadTimer' = loadTimer
            /\ readyListener' = FALSE
            /\ SettleReady(ReadyOutcome(Head(initBox)))
            /\ ChannelStep("channel:init", <<>>)
       ELSE /\ ChannelStep("channel:init:ignored", <<>>)
            /\ UNCHANGED <<loadTimer, readyListener, readySettles,
                           workerReady>>
    /\ UNCHANGED <<calls, listeners, timers, asked, inbox, workerVars,
                   terminated>>

\* an 'init' message event of the worker: the handleMessage of workerReady,
\* if still registered, clears the load timer, removes itself and settles
\* workerReady; the handleMessage of every decode() call returns at its
\* test of the type
chInit ==
    /\ initBox # <<>>
    /\ terminated = 0
    /\ initBox' = Tail(initBox)
    /\ IF readyListener
       THEN /\ loadTimer' = FALSE
            /\ readyListener' = FALSE
            /\ SettleReady(ReadyOutcome(Head(initBox)))
            /\ ChannelStep("channel:init", <<>>)
       ELSE /\ ChannelStep("channel:init:ignored", <<>>)
            /\ UNCHANGED <<loadTimer, readyListener, readySettles,
                           workerReady>>
    /\ UNCHANGED <<calls, listeners, timers, asked, inbox, workerVars,
                   terminated>>

\* the load timer fires: it removes the listener and rejects workerReady
chLoadTimeout ==
    /\ loadTimer
    /\ loadTimer' = FALSE
    /\ readyListener' = FALSE
    /\ SettleReady([settled |-> "rejected",
                    err |-> NewError(WORKER_LOAD_TIMEOUT_CAUSE)])
    /\ ChannelStep("channel:loadTimeout", <<>>)
    /\ UNCHANGED <<calls, listeners, timers, asked, inbox, initBox,
                   workerVars, terminated>>

\* decode(imageData) up to `await workerReady`
chDecode(c) ==
    /\ calls[c].pc = "idle"
    /\ \A b \in 1..(c - 1) : calls[b].pc # "idle"
    /\ calls' = [calls EXCEPT ![c].pc = "ready"]
    /\ ChannelStep("channel:decode", <<>>)
    /\ UNCHANGED <<listeners, timers, asked, inbox, readyVars, workerVars,
                   workerReady, terminated>>

\* decode() without `await workerReady`
chPostWithoutAwait(c) ==
    /\ calls[c].pc = "ready"
    /\ calls' = [calls EXCEPT ![c].pc = "posted", ![c].posted = TRUE]
    /\ timers' = timers \cup {c}
    /\ listeners' = listeners \cup {c}
    /\ asked' = IF terminated = 0 THEN asked \cup {c} ELSE asked
    /\ ChannelStep("channel:post", <<"postMessage">>)
    /\ UNCHANGED <<inbox, readyVars, workerVars, workerReady, terminated>>

\* decode() from the settlement of workerReady: it throws, or arms the
\* timer, registers the listener and posts the request; a terminated worker
\* drops the request
chPost(c) ==
    /\ calls[c].pc = "ready"
    /\ workerReady.settled # "pending"
    /\ IF workerReady.settled = "resolved"
       THEN /\ calls' = [calls EXCEPT ![c].pc = "posted", ![c].posted = TRUE]
            /\ timers' = timers \cup {c}
            /\ listeners' = listeners \cup {c}
            /\ asked' = IF terminated = 0 THEN asked \cup {c} ELSE asked
            /\ ChannelStep("channel:post", <<"postMessage">>)
       ELSE /\ calls' = [calls EXCEPT ![c] = Rej(@, workerReady.err)]
            /\ ChannelStep("channel:notReady", <<>>)
            /\ UNCHANGED <<timers, listeners, asked>>
    /\ UNCHANGED <<inbox, readyVars, workerVars, workerReady, terminated>>

\* the data of the worker's response: null unless the detector is set and
\* detect() returns, then the first element of what it returns
ResponseData(throws, found) ==
    IF ~barcodeDetector \/ throws THEN Null ELSE found

\* the worker's handler posting no response when detection throws
chAnswerUnlessThrown(u, throws, found) ==
    /\ u \in asked
    /\ terminated = 0
    /\ found \in Symbols \cup {Missing}
    /\ asked' = asked \ {u}
    /\ inbox' = IF throws THEN inbox
                ELSE inbox \cup {[uuid |-> u,
                                  data |-> ResponseData(throws, found)]}
    /\ ChannelStep(IF throws THEN "worker:decode:throw" ELSE "worker:decode",
                   <<>>)
    /\ UNCHANGED <<calls, listeners, timers, readyVars, workerVars,
                   workerReady, terminated>>

\* the worker's 'decode' handler: one response with the uuid of the
\* request, whether detect() returns or throws
chAnswer(u, throws, found) ==
    /\ u \in asked
    /\ terminated = 0
    /\ found \in Symbols \cup {Missing}
    /\ asked' = asked \ {u}
    /\ inbox' = inbox \cup {[uuid |-> u,
                             data |-> ResponseData(throws, found)]}
    /\ ChannelStep(IF throws THEN "worker:decode:throw" ELSE "worker:decode",
                   <<>>)
    /\ UNCHANGED <<calls, listeners, timers, readyVars, workerVars, workerReady,
                   terminated>>

\* handleMessage that leaves the timer armed
chMessageKeepingTimer(m) ==
    /\ m \in inbox
    /\ terminated = 0
    /\ inbox' = inbox \ {m}
    /\ calls' = [c \in Uuids |->
                    IF c \in listeners /\ c = m.uuid
                    THEN Res(calls[c], m.data) ELSE calls[c]]
    /\ listeners' = listeners \ {m.uuid}
    /\ timers' = timers
    /\ ChannelStep(IF m.uuid \in listeners THEN "channel:message"
                   ELSE "channel:message:ignored", <<>>)
    /\ UNCHANGED <<asked, readyVars, workerVars, workerReady, terminated>>

\* handleMessage without the test of the uuid
chMessageAnyUuid(m) ==
    /\ m \in inbox
    /\ terminated = 0
    /\ inbox' = inbox \ {m}
    /\ calls' = [c \in Uuids |->
                    IF c \in listeners
                    THEN Res(calls[c], m.data) ELSE calls[c]]
    /\ listeners' = {}
    /\ timers' = timers \ listeners
    /\ ChannelStep(IF listeners # {} THEN "channel:message"
                   ELSE "channel:message:ignored", <<>>)
    /\ UNCHANGED <<asked, readyVars, workerVars, workerReady, terminated>>

\* a 'decode' message event of the worker: every registered handleMessage
\* runs; the one of workerReady returns at its test of the type, and the
\* one with the uuid of the message clears its timer, removes itself and
\* resolves its call
chMessage(m) ==
    /\ m \in inbox
    /\ terminated = 0
    /\ inbox' = inbox \ {m}
    /\ calls' = [c \in Uuids |->
                    IF c \in listeners /\ c = m.uuid
                    THEN Res(calls[c], m.data) ELSE calls[c]]
    /\ listeners' = listeners \ {m.uuid}
    /\ timers' = IF m.uuid \in listeners THEN timers \ {m.uuid} ELSE timers
    /\ ChannelStep(IF m.uuid \in listeners THEN "channel:message"
                   ELSE "channel:message:ignored", <<>>)
    /\ UNCHANGED <<asked, readyVars, workerVars, workerReady, terminated>>

\* the timer callback that leaves the listener registered
chTimeoutKeepingListener(c) ==
    /\ c \in timers
    /\ timers' = timers \ {c}
    /\ listeners' = listeners
    /\ calls' = [calls EXCEPT ![c] = Rej(@, NewError(WORKER_DECODE_TIMEOUT_CAUSE))]
    /\ ChannelStep("channel:timeout", <<>>)
    /\ UNCHANGED <<asked, inbox, readyVars, workerVars, workerReady,
                   terminated>>

\* the decode timer of a call fires: it removes the listener and rejects
chTimeout(c) ==
    /\ c \in timers
    /\ timers' = timers \ {c}
    /\ listeners' = listeners \ {c}
    /\ calls' = [calls EXCEPT ![c] = Rej(@, NewError(WORKER_DECODE_TIMEOUT_CAUSE))]
    /\ ChannelStep("channel:timeout", <<>>)
    /\ UNCHANGED <<asked, inbox, readyVars, workerVars, workerReady,
                   terminated>>

\* a 'decode' request sent straight to the worker by a client other than
\* decode(), which may come before the 'config' message was handled
wkRequest(u) ==
    /\ u \in ForeignUuids
    /\ terminated = 0
    /\ u \notin asked
    /\ \A m \in inbox : m.uuid # u
    /\ asked' = asked \cup {u}
    /\ ChannelStep("worker:request", <<>>)
    /\ UNCHANGED <<calls, listeners, timers, inbox, readyVars, workerVars,
                   workerReady, terminated>>

\* the owner of the channel terminates the worker
chTerminate ==
    /\ terminated = 0
    /\ terminated' = 1
    /\ ChannelStep("channel:terminate", <<"terminate">>)
    /\ UNCHANGED <<chanVars, workerReady>>

\* ------------------------------------------------------------ environment
\* the attached stream delivers or withholds data: the element has a
\* current frame (readyState > 1), and with it a frame size, or has neither
videoChange(size, ready) ==
    /\ gap' = -1
    /\ UNCHANGED otherVars
    /\ delivered' = NoDelivery
    /\ srcObject # 0
    /\ ready <=> size # NoVideo
    /\ <<size, ready>> # <<videoSize, videoReady>>
    /\ videoSize' = size
    /\ videoReady' = ready
    /\ op' = "video"
    /\ fired' = <<>>
    /\ UNCHANGED <<stateVars, srcObject, live, starts, ticks, workerReady,
                   terminated, sinceAdmit>>

Saturate(t) == Min(t, ElapsedCap)

clock(d) ==
    /\ gap' = -1
    /\ UNCHANGED otherVars
    /\ delivered' = NoDelivery
    /\ elapsed' = Saturate(elapsed + d)
    /\ sinceAdmit' = IF sinceAdmit < 0 THEN sinceAdmit
                     ELSE Saturate(sinceAdmit + d)
    /\ op' = "clock"
    /\ fired' = <<>>
    /\ UNCHANGED <<isDecodeFrameProcessed, isDestroyed, isVideoActive,
                   isVideoPaused, isWorkerLoadFailure, scanArea, videoVars,
                   starts, ticks, workerReady, terminated>>

Next ==
    \/ startCall
    \/ \E hasAccess \in BOOLEAN : startAccess(hasAccess)
    \/ \E resolved \in BOOLEAN : startStream(resolved)
    \/ \E pc \in {"play", "playAborted"}, resolved \in BOOLEAN :
           startPlay(pc, resolved)
    \/ pause
    \/ stop
    \/ destroy
    \/ tick
    \/ decodeReady
    \/ \E data \in Payloads, throws \in BOOLEAN : decodeResponse(data, throws)
    \/ decodeTimeout
    \/ \E pc \in {"onSuccess", "onFailure"}, resolved \in BOOLEAN :
           callbackSettled(pc, resolved)
    \/ \E status \in {"success", "failure"} : workerInit(status)
    \/ workerLoadTimeout
    \/ \E size \in VideoSizes, ready \in BOOLEAN : videoChange(size, ready)
    \/ \E d \in ClockSteps : clock(d)

Spec == Init /\ [][Next]_vars

\* Frame callbacks keep being delivered while one is requested, and the
\* clock keeps advancing.
LiveSpec ==
    /\ Spec
    /\ WF_vars(tick)
    /\ WF_vars(\E d \in ClockSteps : clock(d))

\* Besides, promise continuations run and armed timers fire: the load timer
\* of createWorker and the timer of a decode() call.
TimersSpec ==
    /\ LiveSpec
    /\ WF_vars(decodeReady)
    /\ WF_vars(decodeTimeout)
    /\ WF_vars(workerLoadTimeout)

\* an error of the caller's callback whose cause is one of the two causes
\* of a worker load error
LoadCauses == {WORKER_LOAD_FAILURE_CAUSE, WORKER_LOAD_TIMEOUT_CAUSE}

CallbackErrorWith(cause) == [message |-> "callback", cause |-> cause]

\* the promise returned by the caller's callback rejects with such an error
callbackRejectedWith(pc, cause) ==
    /\ pc \in {"onSuccess", "onFailure"}
    /\ cause \in LoadCauses
    /\ ticks[pc] > 0
    /\ tickFinally(pc, TRUE, CallbackErrorWith(cause), <<>>)
    /\ op' = pc \o ":rejected:" \o cause
    /\ gap' = -1
    /\ delivered' = NoDelivery
    /\ UNCHANGED otherVars
    /\ UNCHANGED <<isDestroyed, isVideoActive, isVideoPaused, scanArea,
                   videoVars, starts, workerReady, terminated, sinceAdmit>>

\* The scanner with callbacks that may also fail with an error of such a
\* cause, which tick classifies as a hard failure.
HardFailureNext ==
    \/ Next
    \/ \E pc \in {"onSuccess", "onFailure"}, cause \in LoadCauses :
           callbackRejectedWith(pc, cause)

HardFailureSpec ==
    /\ Init
    /\ [][HardFailureNext]_vars
    /\ WF_vars(tick)
    /\ WF_vars(\E d \in ClockSteps : clock(d))
    /\ WF_vars(decodeReady)
    /\ WF_vars(decodeTimeout)
    /\ WF_vars(workerLoadTimeout)

\* a frame callback admits a frame and onBeforeDecode throws: the
\* exception leaves tick, whose try block has not been entered
tickHookThrows ==
    /\ ticks["scheduled"] > 0
    /\ ~tickReturns
    /\ ~tickSkips
    /\ isDecodeFrameProcessed' = TRUE
    /\ scanArea' = getScanArea(videoSize)
    /\ ticks' = Dec(ticks, "scheduled")
    /\ op' = "tick:admit:hookThrow"
    /\ fired' = <<"onBeforeDecode", "throw">>
    /\ gap' = -1
    /\ delivered' = NoDelivery
    /\ UNCHANGED otherVars
    /\ UNCHANGED <<isDestroyed, isVideoActive, isVideoPaused,
                   isWorkerLoadFailure, elapsed, videoVars, starts,
                   workerReady, terminated, sinceAdmit>>

\* a tick leaves its try block (decode() rejected by its timer or by
\* workerReady, or the caller's callback settled) and onDecode throws in
\* the finally block: the exception leaves tick before the flag is cleared
finallyHookThrows(from) ==
    /\ from \in {"ready", "response", "onSuccess", "onFailure"}
    /\ ticks[from] > 0
    /\ from = "ready" => workerReady.settled = "rejected"
    /\ ticks' = Dec(ticks, from)
    /\ op' = from \o ":hookThrow"
    /\ fired' = (IF from \in {"ready", "response"} THEN <<"warn">>
                 ELSE <<>>) \o <<"onDecode", "throw">>
    /\ gap' = -1
    /\ delivered' = NoDelivery
    /\ UNCHANGED otherVars
    /\ UNCHANGED <<stateVars, videoVars, starts, workerReady, terminated,
                   sinceAdmit>>

\* The scanner with lifecycle hooks that may throw during a tick.
HookThrowsNext ==
    \/ Next
    \/ tickHookThrows
    \/ \E from \in {"ready", "response", "onSuccess", "onFailure"} :
           finallyHookThrows(from)

HookThrowsSpec == Init /\ [][HookThrowsNext]_vars

\* frame sizes of a camera in the other orientation
OtherVideoSizes == {<<480, 640>>}

\* The scanner with streams of more than one frame size.
ResolutionNext ==
    \/ Next
    \/ \E size \in OtherVideoSizes : videoChange(size, TRUE)

ResolutionSpec == Init /\ [][ResolutionNext]_vars

ChannelNext ==
    \/ \E path \in {"native", "ponyfill", "ponyfillThrows", "throws"} :
           wkConfig(path)
    \/ wkPostRun
    \/ chInit
    \/ chLoadTimeout
    \/ \E c \in Uuids : chDecode(c)
    \/ \E c \in Uuids : chPost(c)
    \/ \E u \in WorkerUuids, throws \in BOOLEAN,
          found \in Symbols \cup {Missing} :
           chAnswer(u, throws, found)
    \/ \E u \in WorkerUuids, data \in Payloads :
           chMessage([uuid |-> u, data |-> data])
    \/ \E c \in Uuids : chTimeout(c)
    \/ chTerminate

\* The event loop dispatches the messages that were posted, promise
\* continuations run, armed timers fire and the worker's detect() settles.
ChannelSpec ==
    /\ Init
    /\ [][ChannelNext]_vars
    /\ WF_vars(chInit)
    /\ WF_vars(chLoadTimeout)
    /\ WF_vars(\E c \in Uuids : chPost(c))
    /\ WF_vars(\E c \in Uuids : chTimeout(c))
    /\ \A u \in WorkerUuids :
           WF_vars(\E throws \in BOOLEAN, found \in Symbols \cup {Missing} :
                       chAnswer(u, throws, found))

\* The worker with the channel and with a client that posts requests to it
\* directly.
WorkerNext ==
    \/ ChannelNext
    \/ \E u \in ForeignUuids : wkRequest(u)

WorkerSpec ==
    /\ Init
    /\ [][WorkerNext]_vars
    /\ \A u \in WorkerUuids :
           WF_vars(\E throws \in BOOLEAN, found \in Symbols \cup {Missing} :
                       chAnswer(u, throws, found))

\* ------------------------------------------- functions evaluated alone
\* One call of a function of the library, with arguments drawn from bounded
\* sets, is pending in the initial state and returns in one step; the
\* scanner and the channel are not running.
Pending(name, args) ==
    [fn |-> name, args |-> args, result |-> <<>>, returned |-> FALSE]

\* the pending call returns
Return(result) ==
    /\ ~probe.returned
    /\ probe' = [probe EXCEPT !.result = result, !.returned = TRUE]
    /\ UNCHANGED <<modelVars, decoder, scanner>>

VideoKinds == {"HTMLVideoElement", "HTMLDivElement", "undefined"}

HandlerKinds == {"function", "string", "undefined"}

NoThrow == ""

\* createBarcodeScanner that validates after the resources are acquired
createBarcodeScannerValidatingLate(video, options, canvasContext) ==
    LET acquired == <<"createElement:canvas", "createWorker">>
    IN  IF video # "HTMLVideoElement"
        THEN [thrown |-> "video is not a HTMLVideoElement",
              events |-> acquired]
        ELSE IF options.handleDecodeSuccess # "function"
        THEN [thrown |-> "handleDecodeSuccess is not a function",
              events |-> acquired]
        ELSE IF options.handleDecodeFailure # "function"
        THEN [thrown |-> "handleDecodeFailure is not a function",
              events |-> acquired]
        ELSE IF ~canvasContext
        THEN [thrown |-> "canvas context is not supported",
              events |-> acquired]
        ELSE [thrown |-> NoThrow,
              events |-> acquired \o <<"getScanArea">>
                             \o (IF options.onCreate THEN <<"onCreate">>
                                 ELSE <<>>)]

\* createBarcodeScanner up to the definition of its methods: what it throws
\* and what it has called by then; canvasContext tells whether the browser
\* gives a 2d context
createBarcodeScanner(video, options, canvasContext) ==
    IF video # "HTMLVideoElement"
    THEN [thrown |-> "video is not a HTMLVideoElement", events |-> <<>>]
    ELSE IF options.handleDecodeSuccess # "function"
    THEN [thrown |-> "handleDecodeSuccess is not a function",
          events |-> <<>>]
    ELSE IF options.handleDecodeFailure # "function"
    THEN [thrown |-> "handleDecodeFailure is not a function",
          events |-> <<>>]
    ELSE IF ~canvasContext
    THEN [thrown |-> "canvas context is not supported",
          events |-> <<"createElement:canvas">>]
    ELSE [thrown |-> NoThrow,
          events |-> <<"createElement:canvas", "createWorker", "getScanArea">>
                         \o (IF options.onCreate THEN <<"onCreate">>
                             ELSE <<>>)]

OptionSets == [handleDecodeSuccess : HandlerKinds,
               handleDecodeFailure : HandlerKinds,
               onCreate : BOOLEAN]

CreateBarcodeScannerCalls ==
    {Pending("createBarcodeScanner",
             [video |-> video, options |-> options,
              canvasContext |-> canvasContext]) :
        video \in VideoKinds, options \in OptionSets,
        canvasContext \in BOOLEAN}

evalCreateBarcodeScanner ==
    /\ probe.fn = "createBarcodeScanner"
    /\ Return(createBarcodeScanner(probe.args.video, probe.args.options,
                                   probe.args.canvasContext))

FrameSides == (0..MaxSide) \cup {480, 640, 1080, 1920}

GetScanAreaCalls ==
    {Pending("getScanArea", <<w, h>>) : w \in FrameSides, h \in FrameSides}

evalGetScanArea ==
    /\ probe.fn = "getScanArea"
    /\ Return(getScanArea(probe.args))

\* ------------------------------------------------------ number arithmetic
\* A JavaScript number is a binary floating-point value; it is kept here
\* as <<m, e>> for m * 2^e with a significand of Precision bits
\* (2^(Precision-1) <= |m| < 2^Precision, or <<0, 0>> for zero), and every
\* operation rounds its exact result to the nearest such value, ties to
\* the even significand, as IEEE 754 does with 53 bits.
RECURSIVE Pow2(_)
Pow2(k) == IF k = 0 THEN 1 ELSE 2 * Pow2(k - 1)

\* the significands of the non-zero numbers are HalfRadix .. Radix - 1
Radix == Pow2(Precision)

HalfRadix == Pow2(Precision - 1)

Zero == <<0, 0>>

\* the nearest number to (a / d) * 2^e, for a >= 0 and d > 0
RECURSIVE Nearest(_, _, _)
Nearest(a, d, e) ==
    IF a = 0 THEN Zero
    ELSE IF a >= d * Radix THEN Nearest(a, 2 * d, e + 1)
    ELSE IF a < d * HalfRadix THEN Nearest(2 * a, d, e - 1)
    ELSE LET q == a \div d
             r == a % d
             up == 2 * r > d \/ (2 * r = d /\ q % 2 = 1)
         IN  IF ~up THEN <<q, e>>
             ELSE IF q + 1 = Radix
             THEN <<HalfRadix, e + 1>>
             ELSE <<q + 1, e>>

FNeg(a) == <<-a[1], a[2]>>

\* the nearest number to (n / d) * 2^e, for d > 0
Fl(n, d, e) == IF n < 0 THEN FNeg(Nearest(-n, d, e)) ELSE Nearest(n, d, e)

\* an integer as a number
F(k) == Fl(k, 1, 0)

FMul(a, b) == Fl(a[1] * b[1], 1, a[2] + b[2])

\* a / b for b # 0
FDiv(a, b) ==
    IF b[1] > 0 THEN Fl(a[1], b[1], a[2] - b[2])
    ELSE Fl(-a[1], -b[1], a[2] - b[2])

\* a + b: an operand below a quarter of the last place of the other one
\* does not change the rounded sum
FAdd(a, b) ==
    IF a[1] = 0 THEN b
    ELSE IF b[1] = 0 THEN a
    ELSE IF a[2] - b[2] >= Precision + 3 THEN a
    ELSE IF b[2] - a[2] >= Precision + 3 THEN b
    ELSE LET e == Min(a[2], b[2])
         IN  Fl(a[1] * Pow2(a[2] - e) + b[1] * Pow2(b[2] - e), 1, e)

FSub(a, b) == FAdd(a, FNeg(b))

\* a < b
FLt(a, b) ==
    IF a[1] <= 0 /\ b[1] >= 0 THEN a[1] < 0 \/ b[1] > 0
    ELSE IF a[1] >= 0 /\ b[1] <= 0 THEN FALSE
    ELSE IF a[1] > 0
    THEN a[2] < b[2] \/ (a[2] = b[2] /\ a[1] < b[1])
    ELSE a[2] > b[2] \/ (a[2] = b[2] /\ a[1] < b[1])

FLe(a, b) == ~FLt(b, a)

\* Math.min
FMin(a, b) == IF FLt(b, a) THEN b ELSE a

FMax(a, b) == IF FLt(a, b) THEN b ELSE a

FAbs(a) == IF a[1] < 0 THEN FNeg(a) ELSE a

\* ------------------------------------------------------- render geometry
ObjectFits == {"contain", "cover", "fill", "none", "scale-down", ""}

\* getVideoRenderSize with the test of 'cover' turned round
getVideoRenderSizeLetterboxed(video) ==
    LET renderSize == [height |-> F(video.offsetHeight),
                       width |-> F(video.offsetWidth)]
        renderAspectRatio == FDiv(renderSize.width, renderSize.height)
        sourceSize == [height |-> F(video.videoHeight),
                       width |-> F(video.videoWidth)]
        sourceAspectRatio == FDiv(sourceSize.width, sourceSize.height)
        narrower == FLt(sourceAspectRatio, renderAspectRatio)
        byHeight == [height |-> renderSize.height,
                     width |-> FMul(renderSize.height, sourceAspectRatio)]
        byWidth == [height |-> FDiv(renderSize.width, sourceAspectRatio),
                    width |-> renderSize.width]
        contain == IF narrower THEN byHeight ELSE byWidth
    IN  CASE video.objectFit = "contain" -> contain
          [] video.objectFit = "cover" -> contain
          [] video.objectFit = "fill" -> renderSize
          [] video.objectFit = "none" -> sourceSize
          [] video.objectFit = "scale-down" ->
                 [height |-> FMin(contain.height, sourceSize.height),
                  width |-> FMin(contain.width, sourceSize.width)]
          [] OTHER -> sourceSize

\* getVideoRenderSize of a video element with non-zero box and frame
getVideoRenderSize(video) ==
    LET renderSize == [height |-> F(video.offsetHeight),
                       width |-> F(video.offsetWidth)]
        renderAspectRatio == FDiv(renderSize.width, renderSize.height)
        sourceSize == [height |-> F(video.videoHeight),
                       width |-> F(video.videoWidth)]
        sourceAspectRatio == FDiv(sourceSize.width, sourceSize.height)
        narrower == FLt(sourceAspectRatio, renderAspectRatio)
        wider == FLt(renderAspectRatio, sourceAspectRatio)
        byHeight == [height |-> renderSize.height,
                     width |-> FMul(renderSize.height, sourceAspectRatio)]
        byWidth == [height |-> FDiv(renderSize.width, sourceAspectRatio),
                    width |-> renderSize.width]
        contain == IF narrower THEN byHeight ELSE byWidth
    IN  CASE video.objectFit = "contain" -> contain
          [] video.objectFit = "cover" -> IF wider THEN byHeight ELSE byWidth
          [] video.objectFit = "fill" -> renderSize
          [] video.objectFit = "none" -> sourceSize
          [] video.objectFit = "scale-down" ->
                 [height |-> FMin(contain.height, sourceSize.height),
                  width |-> FMin(contain.width, sourceSize.width)]
          [] OTHER -> sourceSize

\* sides of the box of the video element, in CSS pixels
BoxSides == {3, 5, 7, 17} \cup {MaxSide + 2}

\* <<videoWidth, videoHeight>> of the frames
FrameSizes == {<<4, 3>>, <<16, 9>>, <<3, 4>>, <<17, 7>>,
               <<MaxSide - 1, MaxSide + 3>>}

Video(box, frame, objectFit) ==
    [offsetWidth |-> box[1], offsetHeight |-> box[2],
     videoWidth |-> frame[1], videoHeight |-> frame[2],
     objectFit |-> objectFit]

GetVideoRenderSizeCalls ==
    {Pending("getVideoRenderSize", Video(box, frame, objectFit)) :
        box \in BoxSides \X BoxSides, frame \in FrameSizes,
        objectFit \in ObjectFits}

evalGetVideoRenderSize ==
    /\ probe.fn = "getVideoRenderSize"
    /\ Return(getVideoRenderSize(probe.args))

\* one part of the computed object-position: a percentage or a length in
\* pixels
Percent(v) == [percent |-> TRUE, value |-> v]

Pixels(v) == [percent |-> FALSE, value |-> v]

\* getVideoRenderOffset: the two parts of object-position, a percentage
\* taken of the room the render size leaves in the box
getVideoRenderOffset(video, renderSize) ==
    LET part(index) ==
            LET p == video.objectPosition[index + 1]
                room == IF index = 0
                        THEN FSub(F(video.offsetWidth), renderSize.width)
                        ELSE FSub(F(video.offsetHeight), renderSize.height)
            IN  IF p.percent
                THEN FDiv(FMul(room, F(p.value)), F(100))
                ELSE F(p.value)
    IN  [x |-> part(0), y |-> part(1)]

\* translateAreaToVideoSource that takes no notice of the mirroring
translateAreaToVideoSourceUnmirrored(video, area) ==
    LET videoRenderSize == getVideoRenderSize(video)
        videoRenderOffset == getVideoRenderOffset(video, videoRenderSize)
        areaX == FSub(area.x, videoRenderOffset.x)
        areaY == FSub(area.y, videoRenderOffset.y)
        scaleFactorHeight == FDiv(F(video.videoHeight), videoRenderSize.height)
        scaleFactorWidth == FDiv(F(video.videoWidth), videoRenderSize.width)
    IN  [height |-> FMul(area.height, scaleFactorHeight),
         width |-> FMul(area.width, scaleFactorWidth),
         x |-> FMul(areaX, scaleFactorWidth),
         y |-> FMul(areaY, scaleFactorHeight)]

\* translateAreaToVideoSource: an area of the page, relative to the box of
\* the element, in the pixels of the frame
translateAreaToVideoSource(video, area) ==
    LET videoRenderSize == getVideoRenderSize(video)
        videoRenderOffset == getVideoRenderOffset(video, videoRenderSize)
        areaX == IF video.isMirrored
                 THEN FSub(FSub(videoRenderSize.width,
                                FSub(area.x, videoRenderOffset.x)),
                           area.width)
                 ELSE FSub(area.x, videoRenderOffset.x)
        areaY == FSub(area.y, videoRenderOffset.y)
        scaleFactorHeight == FDiv(F(video.videoHeight), videoRenderSize.height)
        scaleFactorWidth == FDiv(F(video.videoWidth), videoRenderSize.width)
    IN  [height |-> FMul(area.height, scaleFactorHeight),
         width |-> FMul(area.width, scaleFactorWidth),
         x |-> FMul(areaX, scaleFactorWidth),
         y |-> FMul(areaY, scaleFactorHeight)]

\* translateAreaToVideoRender: an area of the frame in the pixels of the
\* page, relative to the box of the element
translateAreaToVideoRender(video, area) ==
    LET videoRenderSize == getVideoRenderSize(video)
        videoRenderOffset == getVideoRenderOffset(video, videoRenderSize)
        areaX == IF video.isMirrored
                 THEN FSub(FSub(F(video.videoWidth), area.x), area.width)
                 ELSE area.x
        areaY == area.y
    IN  [height |-> FMul(FDiv(area.height, F(video.videoHeight)),
                         videoRenderSize.height),
         width |-> FMul(FDiv(area.width, F(video.videoWidth)),
                        videoRenderSize.width),
         x |-> FAdd(FMul(FDiv(areaX, F(video.videoWidth)),
                         videoRenderSize.width),
                    videoRenderOffset.x),
         y |-> FAdd(FMul(FDiv(areaY, F(video.videoHeight)),
                         videoRenderSize.height),
                    videoRenderOffset.y)]

\* <<offsetWidth, offsetHeight>> of the element
Boxes == {<<5, 3>>, <<7, 7>>, <<17, 7>>, <<3, MaxSide + 2>>}

ObjectPositions == {<<Percent(50), Percent(50)>>, <<Percent(0), Percent(100)>>,
                    <<Pixels(2), Pixels(1)>>}

\* areas <<x, y, width, height>> with whole coordinates
Areas == {<<1, 1, 2, 2>>, <<0, 0, 1, 1>>, <<2, 1, 1, 3>>}

Area(a) == [x |-> F(a[1]), y |-> F(a[2]), width |-> F(a[3]),
            height |-> F(a[4])]

PlacedVideo(box, frame, objectFit, objectPosition, isMirrored) ==
    [offsetWidth |-> box[1], offsetHeight |-> box[2],
     videoWidth |-> frame[1], videoHeight |-> frame[2],
     objectFit |-> objectFit, objectPosition |-> objectPosition,
     isMirrored |-> isMirrored]

PlacedVideos ==
    {PlacedVideo(box, frame, objectFit, objectPosition, isMirrored) :
        box \in Boxes, frame \in FrameSizes, objectFit \in ObjectFits,
        objectPosition \in ObjectPositions, isMirrored \in BOOLEAN}

TranslateCalls ==
    {Pending(name, [video |-> video, area |-> Area(a), origin |-> <<>>]) :
        name \in {"translateAreaToVideoSource", "translateAreaToVideoRender"},
        video \in PlacedVideos, a \in Areas}

\* the other translation is called with the result of the one that has
\* returned, for the same video; origin keeps the area the first one was
\* called with
Back(name, other) ==
    /\ probe.fn = other
    /\ probe.returned
    /\ probe.args.origin = <<>>
    /\ probe' = Pending(name, [video |-> probe.args.video,
                               area |-> probe.result,
                               origin |-> <<probe.args.area>>])
    /\ UNCHANGED <<modelVars, decoder, scanner>>

evalTranslateAreaToVideoSource ==
    /\ probe.fn = "translateAreaToVideoSource"
    /\ Return(translateAreaToVideoSource(probe.args.video, probe.args.area))

evalTranslateAreaToVideoRender ==
    /\ probe.fn = "translateAreaToVideoRender"
    /\ Return(translateAreaToVideoRender(probe.args.video, probe.args.area))

backToVideoSource ==
    /\ probe.fn # "none"
    /\ Back("translateAreaToVideoSource", "translateAreaToVideoRender")

backToVideoRender ==
    /\ probe.fn # "none"
    /\ Back("translateAreaToVideoRender", "translateAreaToVideoSource")

\* ---------------------------------------------------------- BarcodeDecoder
DecoderStep(next) ==
    /\ decoder' = next
    /\ UNCHANGED <<modelVars, probe, scanner>>

\* decodeFrame(): requests a frame callback unless the decoder is destroyed
decodeFrame(d) ==
    IF d.isDestroyed THEN d ELSE [d EXCEPT !.requested = @ + 1]

\* play() up to `await this.getCameraAccess()`
bdPlay ==
    /\ decoder.pc = "idle"
    /\ decoder.requested < MaxLoops
    /\ DecoderStep([decoder EXCEPT !.pc = "access", !.last = "play"])

\* play() from the camera access: it throws, or calls decodeFrame() and
\* resumes the attached stream or asks for a stream
bdPlayAccess(hasAccess) ==
    /\ decoder.pc = "access"
    /\ IF ~hasAccess
       THEN DecoderStep([decoder EXCEPT !.pc = "idle", !.last = "play:throw"])
       ELSE LET d == decodeFrame(decoder)
            IN  IF d.srcObject /\ d.paused
                THEN DecoderStep([d EXCEPT !.pc = "idle", !.paused = FALSE,
                                           !.last = "play:resume"])
                ELSE DecoderStep([d EXCEPT !.pc = "stream",
                                           !.last = "play:getUserMedia"])

\* play() from getUserMedia(): the stream is attached and played, or
\* play() throws
bdPlayStream(resolved) ==
    /\ decoder.pc = "stream"
    /\ IF resolved
       THEN DecoderStep([decoder EXCEPT !.pc = "idle", !.srcObject = TRUE,
                                        !.paused = FALSE,
                                        !.last = "play:stream"])
       ELSE DecoderStep([decoder EXCEPT !.pc = "idle", !.last = "play:throw"])

\* pause(): video.pause()
bdPause ==
    /\ ~decoder.paused
    /\ DecoderStep([decoder EXCEPT !.paused = TRUE, !.last = "pause"])

\* stop(): the tracks are stopped and srcObject is cleared, which leaves
\* the element paused with nothing to show
bdStop ==
    /\ decoder.srcObject
    /\ DecoderStep([decoder EXCEPT !.srcObject = FALSE, !.paused = TRUE,
                                    !.last = "stop"])

\* destroy(): stop(), worker.terminate(), isDestroyed = true
bdDestroy ==
    /\ ~decoder.isDestroyed
    /\ DecoderStep([decoder EXCEPT !.srcObject = FALSE, !.paused = TRUE,
                                    !.isDestroyed = TRUE, !.asked = 0,
                                    !.responses = <<>>, !.last = "destroy"])

\* a frame callback of decodeFrame: it skips the frame, or sets
\* isProcessed and posts the frame to the worker; either way it calls
\* decodeFrame() again
bdFrame(tooSoon) ==
    /\ decoder.requested > 0
    /\ LET d == [decoder EXCEPT !.requested = @ - 1]
           skip == \/ tooSoon
                   \/ d.isProcessed
                   \/ d.paused
                   \/ ~d.srcObject
       IN  IF skip
           THEN DecoderStep([decodeFrame(d) EXCEPT !.last = "frame:skip"])
           ELSE /\ d.posted < MaxCalls
                /\ DecoderStep([decodeFrame(d) EXCEPT
                                    !.isProcessed = TRUE,
                                    !.posted = @ + 1, !.asked = @ + 1,
                                    !.last = "frame:post"])

\* the worker answers a request with the first barcode it detected, or
\* with nothing
bdWorkerAnswer(data) ==
    /\ decoder.asked > 0
    /\ data \in Payloads
    /\ DecoderStep([decoder EXCEPT !.asked = @ - 1,
                                    !.responses = Append(@, data),
                                    !.last = "worker:answer"])

\* the message event of a response: decodeFrame has registered no listener
\* on the worker, so nothing handles it
bdMessage ==
    /\ decoder.responses # <<>>
    /\ DecoderStep([decoder EXCEPT !.responses = Tail(@),
                                    !.last = "message:unhandled"])

DecoderNext ==
    \/ bdPlay
    \/ \E hasAccess \in BOOLEAN : bdPlayAccess(hasAccess)
    \/ \E resolved \in BOOLEAN : bdPlayStream(resolved)
    \/ bdPause
    \/ bdStop
    \/ bdDestroy
    \/ \E tooSoon \in BOOLEAN : bdFrame(tooSoon)
    \/ \E data \in Payloads : bdWorkerAnswer(data)
    \/ bdMessage

\* Requested frame callbacks run, the worker answers and the event loop
\* dispatches its messages.
DecoderSpec ==
    /\ Init
    /\ [][DecoderNext]_vars
    /\ WF_vars(\E tooSoon \in BOOLEAN : bdFrame(tooSoon))
    /\ WF_vars(\E data \in Payloads : bdWorkerAnswer(data))
    /\ WF_vars(bdMessage)

\* ----------------------------------------------- BarcodeScanner (class)
ScannerStep(next) ==
    /\ scanner' = next
    /\ UNCHANGED <<modelVars, probe, decoder>>

\* decodeFrame() up to requestFrame: nothing when the scanner is destroyed
bsDecodeFrame(b) ==
    IF b.isDestroyed THEN b ELSE [b EXCEPT !.requested = @ + 1]

\* start() up to `await this.getCameraAccess()`
bsStart ==
    /\ scanner.pc = "idle"
    /\ scanner.requested + (IF scanner.decoding THEN 1 ELSE 0) < MaxLoops
    /\ ScannerStep([scanner EXCEPT !.pc = "access", !.last = "start"])

\* start() from the camera access: it throws, or calls decodeFrame() and
\* resumes the attached stream or asks for a stream
bsStartAccess(hasAccess) ==
    /\ scanner.pc = "access"
    /\ IF ~hasAccess
       THEN ScannerStep([scanner EXCEPT !.pc = "idle",
                                        !.last = "start:throw"])
       ELSE LET b == bsDecodeFrame(scanner)
            IN  IF b.srcObject /\ b.paused
                THEN ScannerStep([b EXCEPT !.pc = "idle", !.paused = FALSE,
                                           !.last = "start:resume"])
                ELSE ScannerStep([b EXCEPT !.pc = "stream",
                                           !.last = "start:getUserMedia"])

\* start() from getUserMedia(): the stream is attached and played, or
\* start() throws
bsStartStream(resolved) ==
    /\ scanner.pc = "stream"
    /\ IF resolved
       THEN ScannerStep([scanner EXCEPT !.pc = "idle", !.srcObject = TRUE,
                                        !.paused = FALSE,
                                        !.last = "start:stream"])
       ELSE ScannerStep([scanner EXCEPT !.pc = "idle",
                                        !.last = "start:throw"])

\* pause(): video.pause()
bsPause ==
    /\ ~scanner.paused
    /\ ScannerStep([scanner EXCEPT !.paused = TRUE, !.last = "pause"])

\* stop(): the tracks are stopped and srcObject is cleared, which leaves
\* the element paused with nothing to show
bsStop ==
    /\ scanner.srcObject
    /\ ScannerStep([scanner EXCEPT !.srcObject = FALSE, !.paused = TRUE,
                                    !.last = "stop"])

\* destroy(): stop(), worker.terminate(), isDestroyed = true
bsDestroy ==
    /\ ~scanner.isDestroyed
    /\ ScannerStep([scanner EXCEPT !.srcObject = FALSE, !.paused = TRUE,
                                    !.isDestroyed = TRUE,
                                    !.last = "destroy"])

\* performance.now() - this.decodeFrameRequestTimestamp < 1000 / scanRate
bsRateLimited(b) == b.elapsed * scanRate < 1000

\* the skip branch of the frame callback: the timestamp is written and
\* decodeFrame() is called
bsSkip(b) ==
    [bsDecodeFrame(b) EXCEPT !.elapsed = 0, !.last = "frame:skip"]

\* a frame callback of decodeFrame: it skips the frame, or sets
\* isDecodeFrameProcessed and calls decode() with the captured frame
bsFrame ==
    /\ scanner.requested > 0
    /\ LET b == [scanner EXCEPT !.requested = @ - 1]
       IN  IF \/ bsRateLimited(b)
              \/ b.isDecodeFrameProcessed
              \/ b.paused
              \/ ~b.srcObject
           THEN ScannerStep(bsSkip(b))
           ELSE ScannerStep([b EXCEPT !.isDecodeFrameProcessed = TRUE,
                                      !.decoding = TRUE,
                                      !.last = "frame:admit"])

\* the promise of decode() settles, with a barcode, or rejected by a
\* response without one or by the timer: then / catch call the caller's
\* callback, finally clears the flag, writes the timestamp and calls
\* decodeFrame()
bsDecodeSettled(outcome) ==
    /\ scanner.decoding
    /\ outcome \in {"onDecode", "onDecodeError"}
    /\ ScannerStep([bsDecodeFrame(scanner) EXCEPT
                        !.decoding = FALSE,
                        !.isDecodeFrameProcessed = FALSE,
                        !.elapsed = 0,
                        !.last = "decode:" \o outcome])

\* the clock advances
bsClock(d) ==
    /\ scanner.elapsed < ElapsedCap
    /\ ScannerStep([scanner EXCEPT !.elapsed = Min(@ + d, ElapsedCap),
                                    !.last = "clock"])

ScannerNext ==
    \/ bsStart
    \/ \E hasAccess \in BOOLEAN : bsStartAccess(hasAccess)
    \/ \E resolved \in BOOLEAN : bsStartStream(resolved)
    \/ bsPause
    \/ bsStop
    \/ bsDestroy
    \/ bsFrame
    \/ \E outcome \in {"onDecode", "onDecodeError"} : bsDecodeSettled(outcome)
    \/ \E d \in ClockSteps : bsClock(d)

\* Requested frame callbacks run, the clock advances and a decode() call
\* settles, by its response or its timer.
ScannerSpec ==
    /\ Init
    /\ [][ScannerNext]_vars
    /\ WF_vars(bsFrame)
    /\ WF_vars(\E d \in ClockSteps : bsClock(d))
    /\ WF_vars(\E outcome \in {"onDecode", "onDecodeError"} :
                   bsDecodeSettled(outcome))

PureInputs ==
    CreateBarcodeScannerCalls \cup GetScanAreaCalls
        \cup GetVideoRenderSizeCalls \cup TranslateCalls

PureInit ==
    /\ Created
    /\ probe \in PureInputs

PureNext ==
    \/ evalCreateBarcodeScanner
    \/ evalGetScanArea
    \/ evalGetVideoRenderSize
    \/ evalTranslateAreaToVideoSource
    \/ evalTranslateAreaToVideoRender
    \/ backToVideoSource
    \/ backToVideoRender

PureSpec == PureInit /\ [][PureNext]_vars

TypeOK ==
    /\ isDecodeFrameProcessed \in BOOLEAN
    /\ isDestroyed \in BOOLEAN
    /\ isVideoActive \in BOOLEAN
    /\ isVideoPaused \in BOOLEAN
    /\ isWorkerLoadFailure \in BOOLEAN
    /\ elapsed \in 0..ElapsedCap
    /\ srcObject \in live \cup {0}
    /\ live \subseteq 1..MaxStreams
    /\ videoSize \in VideoSizes
    /\ videoReady \in BOOLEAN
    /\ starts \in [StartPcs -> 0..MaxStarts]
    /\ ticks \in [TickPcs -> 0..MaxLoops]
    /\ terminated \in 0..1
    /\ sinceAdmit \in -1..ElapsedCap
    /\ gap \in -1..ElapsedCap
    /\ gap >= 0 => op = "tick:admit"
    /\ delivered.payload \in Payloads
    /\ \A c \in Uuids :
           /\ calls[c].pc \in {"idle", "ready", "posted", "resolved",
                                "rejected"}
           /\ calls[c].result \in Payloads
           /\ calls[c].settles \in 0..2
    /\ listeners \subseteq Uuids
    /\ timers \subseteq Uuids
    /\ asked \subseteq WorkerUuids
    /\ \A m \in inbox : m.uuid \in WorkerUuids /\ m.data \in Payloads
    /\ readyListener \in BOOLEAN
    /\ loadTimer \in BOOLEAN
    /\ readySettles \in 0..2
    /\ \A i \in 1..Len(initBox) : initBox[i] \in {"success", "failure"}
    /\ workerPc \in {"config", "postRun", "done"}
    /\ barcodeDetector \in BOOLEAN
    /\ probe.fn \in {"none", "createBarcodeScanner", "getScanArea",
                    "getVideoRenderSize", "translateAreaToVideoRender",
                    "translateAreaToVideoSource"}
    /\ probe.returned \in BOOLEAN
    /\ decoder.isDestroyed \in BOOLEAN
    /\ decoder.isProcessed \in BOOLEAN
    /\ decoder.pc \in {"idle", "access", "stream"}
    /\ decoder.requested \in 0..MaxLoops
    /\ decoder.posted \in 0..MaxCalls
    /\ decoder.asked \in 0..MaxCalls
    /\ \A i \in 1..Len(decoder.responses) : decoder.responses[i] \in Payloads
    /\ \A i \in 1..Len(decoder.onDecode) : decoder.onDecode[i] \in Symbols
    /\ scanner.isDestroyed \in BOOLEAN
    /\ scanner.isDecodeFrameProcessed \in BOOLEAN
    /\ scanner.pc \in {"idle", "access", "stream"}
    /\ scanner.requested \in 0..MaxLoops
    /\ scanner.decoding \in BOOLEAN
    /\ scanner.elapsed \in 0..ElapsedCap

\* ------------------------------------------------------------ properties
Has(seq, e) == \E i \in 1..Len(seq) : seq[i] = e

\* C1: at most one decode request is outstanding (posted to the worker,
\* neither answered nor timed out) in every reachable state, also when
\* several tick loops are alive.
AtMostOneDecodeOutstanding == ticks["response"] <= 1

\* a request is outstanding while a second tick loop is alive
TwoLoopsOneOutstanding == ticks["response"] = 1 /\ ticks["scheduled"] >= 1

\* C2: any two frames admitted one after the other are at least
\* 1000 / scanRate ms apart on the clock.
AdmittedFramesSpaced == gap >= 0 => gap * scanRate >= 1000

\* a second frame has just been admitted
SecondFrameAdmitted == op = "tick:admit" /\ gap >= 0

\* C3: a decode response that arrives when stop() or destroy() has made the
\* scanner inactive is discarded: neither callback is invoked for it.
ResponseOps == {"decode:symbol", "decode:null",
                "decode:symbol:throw", "decode:null:throw"}

LateResponseDiscarded ==
    [][((isDestroyed \/ isVideoActive = FALSE) /\ op' \in ResponseOps)
           => (~Has(fired', "handleDecodeSuccess")
               /\ ~Has(fired', "handleDecodeFailure"))]_vars

\* C4: on a destroyed scanner a call of start(), pause(), stop() or
\* destroy() changes no state, acquires no stream, fires no hook and
\* schedules no tick.
CallOps == {"start", "pause", "pause:noop", "stop", "stop:noop",
            "destroy", "destroy:noop"}

DestroyedCallsAreNoOps ==
    [][(isDestroyed /\ op' \in CallOps)
           => (fired' = <<>>
               /\ UNCHANGED <<isVideoActive, isVideoPaused, scanArea,
                              srcObject, live, starts, ticks>>)]_vars

\* C5: a destroy() call on a destroyed scanner terminates no worker, fires
\* no hook and leaves the whole state as it was.
SecondDestroyIsNoOp ==
    [][(isDestroyed /\ op' \in {"destroy", "destroy:noop"})
           => (fired' = <<>>
               /\ UNCHANGED <<stateVars, videoVars, starts, ticks,
                              workerReady, terminated>>)]_vars

\* destroy() has been called on a scanner that was destroyed already
DestroyedTwice == op = "destroy:noop" /\ isDestroyed /\ terminated = 1

\* C6: when stop() returns on a scanner that is not destroyed, no stream is
\* attached, the tracks of the stream that was attached are stopped and both
\* flags are false.
StopReleasesEverything ==
    [][(op' \in {"stop", "stop:noop"} /\ ~isDestroyed')
           => (srcObject' = 0 /\ srcObject \notin live'
               /\ isVideoActive' = FALSE /\ isVideoPaused' = FALSE)]_vars

\* C7: once every call has returned, each acquired stream is the attached
\* one or has its tracks stopped, and a stream is attached only to an
\* active scanner that is not destroyed.
CallsReturnedConsistent ==
    Count(starts) = 0
        => (live \subseteq {srcObject}
            /\ (srcObject # 0 => isVideoActive /\ ~isDestroyed))

\* C8: the tick that observes a decode rejected by a failed readiness sets
\* isWorkerLoadFailure and schedules no further tick.
WorkerLoadErrorHalts ==
    op = "decode:notReady"
        => (isWorkerLoadFailure /\ ~Has(fired, "requestFrame"))

\* C9: after a decode that ends in DecodeTimeout or in a null result the
\* in-flight flag is cleared, the timestamp is re-stamped and a tick is
\* scheduled; then another frame is admitted unless the scanner stops
\* being active with a ready video.
TransientOps == {"decode:timeout", "decode:null:throw",
                 "onFailure:resolved", "onFailure:rejected"}

PerDecodeErrorIsTransient ==
    /\ [](op \in TransientOps
             => (isDecodeFrameProcessed = FALSE /\ elapsed = 0
                 /\ ticks["scheduled"] >= 1 /\ Has(fired, "requestFrame")))
    /\ op \in TransientOps
           ~> (op = "tick:admit"
               \/ ~(isVideoActive /\ videoReady /\ ~isDestroyed))

\* a decode has timed out, or a null result has been handled, on a scanner
\* that is still active with a ready video
TransientErrorWhileScanning ==
    op \in TransientOps /\ isVideoActive /\ videoReady /\ ~isDestroyed

\* C10: for every admitted frame whose decode call rejects,
\* handleDecodeFailure is invoked in the step that observes the rejection.
DecodeErrorsReachFailureCallback ==
    op \in {"decode:timeout", "decode:notReady"}
        => Has(fired, "handleDecodeFailure")

\* C11: a step that receives a decode response invokes exactly one caller
\* callback, once: handleDecodeSuccess when the payload is a symbol,
\* handleDecodeFailure when it is null; no other step invokes either.
Occurrences(seq, e) == Cardinality({i \in 1..Len(seq) : seq[i] = e})

OneCallbackPerResolvedDecode ==
    /\ op \in ResponseOps
           => /\ Occurrences(fired, "handleDecodeSuccess")
                     = (IF delivered.payload \in Symbols THEN 1 ELSE 0)
              /\ Occurrences(fired, "handleDecodeFailure")
                     = (IF delivered.payload \in Symbols THEN 0 ELSE 1)
              /\ Len(delivered.calls) = 1
    /\ op \notin ResponseOps
           => (~Has(fired, "handleDecodeSuccess")
               /\ ~Has(fired, "handleDecodeFailure")
               /\ delivered.calls = <<>>)

\* a decode has resolved with a symbol and its callback has thrown
SymbolDeliveredCallbackThrew ==
    op = "decode:symbol:throw" /\ delivered.payload \in Symbols

\* C12: the call of handleDecodeSuccess passes the symbol's rawValue and the
\* axis-aligned box enclosing the corner points, moved by the origin of the
\* scan area; the corners (10,10),(50,10),(50,50),(10,50) with the origin
\* (100,100) give {x:110, y:110, width:40, height:40}.
Least(S) == CHOOSE m \in S : \A v \in S : m <= v

Greatest(S) == CHOOSE m \in S : \A v \in S : m >= v

EnclosingBox(P, ox, oy) ==
    LET X == {P[i].x : i \in 1..Len(P)}
        Y == {P[i].y : i \in 1..Len(P)}
    IN  [x |-> Least(X) + ox, y |-> Least(Y) + oy,
         width |-> Greatest(X) - Least(X),
         height |-> Greatest(Y) - Least(Y)]

ExampleCorners == <<Point(10, 10), Point(50, 10), Point(50, 50),
                    Point(10, 50)>>

ExampleScanArea == [height |-> 200, width |-> 200, x |-> 100, y |-> 100]

SuccessAreaIsEnclosingBox ==
    /\ \A i \in 1..Len(delivered.calls) :
           delivered.calls[i].callback = "handleDecodeSuccess"
               => /\ delivered.calls[i].data = delivered.payload.rawValue
                  /\ delivered.calls[i].area
                         = EnclosingBox(delivered.payload.cornerPoints,
                                        scanArea.x, scanArea.y)
    /\ decodeArea(ExampleCorners, ExampleScanArea)
           = [x |-> 110, y |-> 110, width |-> 40, height |-> 40]

\* the skewed symbol has been delivered under a scan area away from the
\* origin of the frame
SkewedSymbolDelivered ==
    /\ op = "decode:symbol"
    /\ delivered.payload.rawValue = "XYZ"
    /\ scanArea.x > 0 /\ scanArea.y > 0

\* C13: pause() on a scanner that is not active, is paused or is destroyed
\* changes no state field, stops no track and fires no hook.
PauseOps == {"pause", "pause:noop"}

PauseIsNoOpWhenNotScanning ==
    [][((isVideoActive = FALSE \/ isVideoPaused \/ isDestroyed)
        /\ op' \in PauseOps)
           => (fired' = <<>>
               /\ UNCHANGED <<stateVars, videoVars, starts, ticks,
                              workerReady, terminated>>)]_vars

\* pause() has been called on a paused scanner
PausedTwice == op = "pause:noop" /\ isVideoPaused /\ ~isDestroyed

\* C14: pause() on an active, unpaused scanner that is not destroyed stops
\* the tracks of the attached stream, detaches it, sets isVideoPaused and
\* leaves isVideoActive true.
PauseReleasesStream ==
    [][(isVideoActive /\ ~isVideoPaused /\ ~isDestroyed /\ op' \in PauseOps)
           => (srcObject \notin live' /\ srcObject' = 0
               /\ isVideoPaused' /\ isVideoActive')]_vars

\* pause() has released the stream of a scanning scanner
PausedWhileScanning ==
    op = "pause" /\ isVideoPaused /\ isVideoActive /\ srcObject = 0
        /\ sinceAdmit >= 0

\* C15: when start() reaches its test of video.srcObject with a stream
\* attached, it requests no stream from the camera and leaves the attached
\* stream as it is.
AccessOps == {"start:noAccess", "start:attached", "start:getUserMedia"}

StopThenStartAcquiresStream ==
    [][/\ (isVideoActive /\ op' \in {"stop", "stop:noop"})
              => (srcObject' = 0 /\ live' = live \ {srcObject})
       /\ (srcObject = 0 /\ op' \in {"start:attached", "start:getUserMedia"})
              => (Has(fired', "getUserMedia")
                  /\ starts'["stream"] = starts["stream"] + 1)
       /\ op' = "start:play"
              => (srcObject' # 0 /\ srcObject' \notin live
                  /\ srcObject' \in live')
       /\ op' = "start:done"
              => (srcObject' # 0 /\ UNCHANGED <<srcObject, live>>
                  /\ isVideoActive' /\ ~isVideoPaused')]_vars

\* C17: a start() whose camera access is refused throws 'No camera access';
\* neither its call nor its failure changes a state field, requests or
\* attaches a stream, fires onStart or schedules a tick.
StartWithoutAccessChangesNothing ==
    [][/\ op' = "start:noAccess"
              => (fired' = <<"throw:No camera access">>
                  /\ Count(starts') = Count(starts) - 1
                  /\ starts'["stream"] = starts["stream"])
       /\ op' \in {"start", "start:noAccess"}
              => (~Has(fired', "getUserMedia") /\ ~Has(fired', "onStart")
                  /\ ~Has(fired', "requestFrame")
                  /\ UNCHANGED <<stateVars, videoVars, ticks, workerReady,
                                 terminated>>)]_vars

\* start() has failed for lack of camera access
StartRefused == op = "start:noAccess"

\* C18: isVideoPaused implies isVideoActive in every reachable state, and
\* isDestroyed never goes back to false.
LifecycleFlagsConsistent ==
    /\ [](isVideoPaused => isVideoActive)
    /\ [][isDestroyed => isDestroyed']_vars

\* a scanner that has scanned is destroyed after a pause
DestroyedAfterScanning ==
    isDestroyed /\ sinceAdmit >= 0 /\ op = "pause:noop"

\* the promise of a call is settled
Settled(call) == call.pc \in {"resolved", "rejected"}

\* res / rej has been called once for a settled call and never for another
SettlesAtMostOnce ==
    \A c \in Uuids :
        calls[c].settles = (IF Settled(calls[c]) THEN 1 ELSE 0)

\* a call is resolved by the dispatch of a response with its uuid, with the
\* payload of that response, and is rejected after its request only while it
\* is still listening
SettlesByMatchOrTimer ==
    \A c \in Uuids :
        /\ (calls[c].pc = "posted" /\ calls'[c].pc = "resolved")
               => \E m \in inbox \ inbox' :
                      m.uuid = c /\ calls'[c].result = m.data
        /\ (calls[c].pc = "posted" /\ calls'[c].pc = "rejected")
               => (c \in listeners /\ c \in timers)

\* a response or a timer that comes after the settlement changes nothing
SettledIsFinal ==
    \A c \in Uuids : Settled(calls[c]) => calls'[c] = calls[c]

\* every call that was made settles
EveryCallSettles ==
    \A c \in Uuids : (calls[c].pc # "idle") ~> Settled(calls[c])

\* C19 as stated: each decode() call settles exactly once, resolved with the
\* payload of the first response carrying its uuid or rejected with
\* DecodeTimeout; a late response and a late timer have no effect.
DecodeSettlesByMatchOrTimeout ==
    /\ [](SettlesAtMostOnce
            /\ \A c \in Uuids :
                   calls[c].pc = "rejected"
                       => calls[c].err = NewError(WORKER_DECODE_TIMEOUT_CAUSE))
    /\ [][SettlesByMatchOrTimer /\ SettledIsFinal]_vars
    /\ EveryCallSettles

\* C19 amended: each decode() call settles exactly once: when workerReady is
\* rejected it rejects with the error of workerReady without posting a
\* request; otherwise it resolves with the payload of the first response
\* carrying its uuid or rejects with DecodeTimeout; a late response and a
\* late timer have no effect.
DecodeSettlesOnce ==
    /\ [](SettlesAtMostOnce
            /\ \A c \in Uuids :
                   calls[c].pc = "rejected"
                       => IF calls[c].posted
                          THEN calls[c].err
                                   = NewError(WORKER_DECODE_TIMEOUT_CAUSE)
                          ELSE /\ workerReady.settled = "rejected"
                               /\ calls[c].err = workerReady.err)
    /\ [][SettlesByMatchOrTimer /\ SettledIsFinal]_vars
    /\ EveryCallSettles

\* the response of a call that timed out is dispatched while another call
\* is resolved
LateResponseIgnored ==
    /\ op = "channel:message:ignored"
    /\ \E c, d \in Uuids :
           /\ calls[c].pc = "rejected" /\ calls[c].posted
           /\ calls[d].pc = "resolved" /\ Truthy(calls[d].result)

\* C20 as stated: the number of decode listeners registered on the worker
\* equals the number of unsettled decode() calls.
Unsettled == {c \in Uuids : calls[c].pc \in {"ready", "posted"}}

ListenersMatchUnsettledCalls ==
    Cardinality(listeners) = Cardinality(Unsettled)

\* C20 amended: the decode listeners registered on the worker are those of
\* the decode() calls that have posted their request and are not settled;
\* a call that still awaits workerReady has no listener.
PostedUnsettled == {c \in Uuids : calls[c].pc = "posted"}

ListenersMatchPostedCalls ==
    /\ listeners = PostedUnsettled
    /\ Cardinality(listeners) = Cardinality(PostedUnsettled)
    /\ \A c \in Uuids : calls[c].pc = "ready" => c \notin listeners

\* one call has lost its listener to the timeout while another one is
\* listening
ListenerRemovedByTimeout ==
    \E c, d \in Uuids :
        /\ calls[c].pc = "rejected" /\ calls[c].posted
        /\ calls[d].pc = "posted"
        /\ listeners = {d}

\* ------------------------------------------------- foreign messages (C21)

\* the messages the step dispatches to the listeners of the worker
DispatchedDecode == inbox \ inbox'

DispatchedInit == initBox # <<>> /\ initBox' = Tail(initBox)

\* C21: a dispatched worker message whose type is not 'decode' or whose
\* uuid is not the one of a listening decode() call leaves that call as it
\* is: still pending with no error, its listener registered and its timer
\* as it was.
ForeignMessageIgnored ==
    [][\A c \in listeners :
           (\/ DispatchedInit
            \/ \E m \in DispatchedDecode : m.uuid # c)
               => /\ calls'[c] = calls[c]
                  /\ calls'[c].pc = "posted"
                  /\ calls'[c].err = NoError
                  /\ c \in listeners'
                  /\ (c \in timers) = (c \in timers')]_vars

\* the response of one call has just resolved it while another call is
\* still listening with its timer armed
ForeignResponseDispatched ==
    /\ op = "channel:message"
    /\ \E c, d \in Uuids :
           /\ c # d
           /\ calls[d].pc = "resolved"
           /\ calls[c].pc = "posted" /\ c \in listeners /\ c \in timers

\* ----------------------------------------------- decode awaits ready (C22)

\* workerReady resolves only in the step that dispatches an 'init' message
\* with status 'success'
ReadyResolvesOnSuccess ==
    (workerReady.settled # "resolved" /\ workerReady'.settled = "resolved")
        => /\ initBox # <<>>
           /\ Head(initBox) = "success"
           /\ initBox' = Tail(initBox)

\* a step posts a 'decode' message only once workerReady is resolved
PostsOnlyWhenReady ==
    (Has(fired', "postMessage") \/ asked' \ asked # {})
        => workerReady.settled = "resolved"

\* a call that finds workerReady rejected is rejected with its error and
\* posts nothing
RejectsWithoutPosting ==
    \A c \in Uuids :
        (/\ calls[c].pc = "ready"
         /\ workerReady.settled = "rejected"
         /\ calls'[c] # calls[c])
            => /\ calls'[c].pc = "rejected"
               /\ calls'[c].err = workerReady.err
               /\ ~calls'[c].posted
               /\ ~Has(fired', "postMessage")
               /\ asked' = asked
               /\ listeners' = listeners
               /\ timers' = timers

\* C22: no 'decode' message is posted before the 'init' message with status
\* 'success' was received, and when readiness failed (load timeout or
\* reported failure) decode() rejects without posting a 'decode' message.
DecodeAwaitsReadiness ==
    /\ [](\A c \in Uuids :
              /\ (calls[c].posted \/ c \in asked)
                     => workerReady.settled = "resolved"
              /\ workerReady.settled = "rejected" => ~calls[c].posted)
    /\ [][ReadyResolvesOnSuccess /\ PostsOnlyWhenReady
              /\ RejectsWithoutPosting]_vars
    /\ \A c \in Uuids :
           (calls[c].pc = "ready" /\ workerReady.settled = "rejected")
               ~> (calls[c].pc = "rejected" /\ ~calls[c].posted)

\* decode() has just thrown the load error of a channel whose readiness had
\* failed, with nothing asked of the worker
DecodeRejectedNotReady ==
    /\ op = "channel:notReady"
    /\ workerReady.settled = "rejected"
    /\ asked = {}
    /\ \E c \in Uuids : calls[c].pc = "rejected" /\ ~calls[c].posted

\* ------------------------------------------------ readiness settles (C23)

ReadyPending == workerReady.settled = "pending"

\* while workerReady is pending, the dispatch of an 'init' message settles
\* it by the status of the message, so the message that settles it is the
\* first one
FirstInitSettles ==
    (DispatchedInit /\ ReadyPending)
        => /\ workerReady' = ReadyOutcome(Head(initBox))
           /\ (Head(initBox) = "success")
                  => workerReady' = [settled |-> "resolved", err |-> NoError]
           /\ (Head(initBox) = "failure")
                  => workerReady' =
                         [settled |-> "rejected",
                          err |-> NewError(WORKER_LOAD_FAILURE_CAUSE)]

\* without an 'init' message workerReady leaves the pending state only by
\* the load timer, rejected with WorkerLoadTimeout
TimeoutSettles ==
    (ReadyPending /\ ~DispatchedInit /\ workerReady' # workerReady)
        => /\ loadTimer /\ ~loadTimer'
           /\ workerReady' = [settled |-> "rejected",
                              err |-> NewError(WORKER_LOAD_TIMEOUT_CAUSE)]

\* once settled, an 'init' message, a 'decode' message and the timer change
\* nothing and call neither res nor rej
ReadySettledIsFinal ==
    ~ReadyPending
        => /\ workerReady' = workerReady
           /\ readySettles' = readySettles

\* C23: worker readiness settles exactly once: resolved by the first 'init'
\* message when it reports 'success', rejected with WorkerLoadFailure when
\* it reports 'failure', rejected with WorkerLoadTimeout when the load
\* timer fires first; a later 'init' message and messages of other types
\* do not settle it.
ReadinessSettlesOnce ==
    /\ [](/\ readySettles <= 1
          /\ ReadyPending <=> readySettles = 0
          /\ ReadyPending => (readyListener /\ loadTimer)
          /\ ~ReadyPending => (~readyListener /\ ~loadTimer))
    /\ [][FirstInitSettles /\ TimeoutSettles /\ ReadySettledIsFinal
              /\ (DispatchedDecode # {} => workerReady' = workerReady)]_vars
    /\ <>(readySettles = 1)

\* an 'init' message has been dispatched after the load timer rejected
\* workerReady
InitAfterLoadTimeout ==
    /\ op = "channel:init:ignored"
    /\ workerReady = [settled |-> "rejected",
                      err |-> NewError(WORKER_LOAD_TIMEOUT_CAUSE)]
    /\ readySettles = 1

\* --------------------------------------------- the worker answers (C24)

Responses(box, u) == {m \in box : m.uuid = u}

\* the step in which the worker finishes a request posts one response, with
\* the uuid of the request, and its data is null when the detector is not
\* set or detect() threw
AnswersOnce ==
    \A u \in WorkerUuids :
        (u \in asked /\ u \notin asked')
            => /\ Cardinality(inbox' \ inbox) = 1
               /\ Cardinality(Responses(inbox', u) \ inbox) = 1
               /\ (~barcodeDetector \/ op' = "worker:decode:throw")
                      => \A m \in inbox' \ inbox : m.data = Null

\* the worker posts a response only as the answer to a request
AnswersOnlyRequests ==
    inbox' \ inbox # {}
        => \E u \in asked \ asked' : inbox' \ inbox \subseteq Responses(inbox', u)

\* C24: the worker answers every 'decode' request with exactly one 'decode'
\* response carrying the uuid of the request; its data is null when the
\* detector is not initialised or detection throws, so no request stays
\* unanswered because of a detection error.
WorkerAnswersEveryRequest ==
    /\ [](\A u \in WorkerUuids :
              /\ Cardinality(Responses(inbox, u)) <= 1
              /\ u \in asked => Responses(inbox, u) = {})
    /\ [][AnswersOnce /\ AnswersOnlyRequests]_vars
    /\ \A u \in WorkerUuids :
           (u \in asked) ~> (u \notin asked \/ terminated = 1)

\* detection has just thrown and the null response is in the mailbox
ThrownDetectionAnswered ==
    /\ op = "worker:decode:throw"
    /\ \E m \in inbox : m.uuid \in Uuids /\ m.data = Null

\* a request that came before the detector was set has been answered null
AnsweredWithoutDetector ==
    /\ op = "worker:decode"
    /\ ~barcodeDetector
    /\ \E m \in inbox : m.uuid \in ForeignUuids /\ m.data = Null

\* ------------------------------------------- construction fails fast (C25)

Constructed == probe.fn = "createBarcodeScanner" /\ probe.returned

InvalidArguments ==
    \/ probe.args.video # "HTMLVideoElement"
    \/ probe.args.options.handleDecodeSuccess # "function"
    \/ probe.args.options.handleDecodeFailure # "function"

\* C25: when the video handle is not a video element or one of the two
\* decode handlers is not a function, createBarcodeScanner throws before a
\* worker is created, before a camera stream is requested and before
\* onCreate is fired.
ConstructionFailsFast ==
    (Constructed /\ InvalidArguments)
        => /\ probe.result.thrown # NoThrow
           /\ ~Has(probe.result.events, "createWorker")
           /\ ~Has(probe.result.events, "getUserMedia")
           /\ ~Has(probe.result.events, "onCreate")

\* construction with a video element and a success handler, and a failure
\* handler that is not a function, has thrown
ConstructionRefusedHandler ==
    /\ Constructed
    /\ probe.args.video = "HTMLVideoElement"
    /\ probe.args.options.handleDecodeSuccess = "function"
    /\ probe.args.options.handleDecodeFailure = "undefined"
    /\ probe.args.options.onCreate
    /\ probe.result.thrown = "handleDecodeFailure is not a function"

\* ------------------------------------------------ default scan area (C30)

\* n is Math.round(p / q) for p >= 0, q > 0: the integer with
\* n - 1/2 <= p/q < n + 1/2
IsRounded(n, p, q) == 2 * q * n - q <= 2 * p /\ 2 * p < 2 * q * n + q

\* C30: for every video size w x h, getScanArea returns a square of side
\* round(2/3 * min(w, h)) with x = round((w - side)/2) and
\* y = round((h - side)/2), and the square lies inside the frame.
DefaultScanAreaCentered ==
    (probe.fn = "getScanArea" /\ probe.returned)
        => LET w == probe.args[1]
               h == probe.args[2]
               area == probe.result
           IN  /\ area.width = area.height
               /\ IsRounded(area.width, 2 * Min(w, h), 3)
               /\ IsRounded(area.x, w - area.width, 2)
               /\ IsRounded(area.y, h - area.height, 2)
               /\ 0 <= area.x /\ area.x + area.width <= w
               /\ 0 <= area.y /\ area.y + area.height <= h

\* the default area of a 640 x 480 frame: a square of 320 at (160, 80)
DefaultAreaOfVgaFrame ==
    /\ probe.fn = "getScanArea"
    /\ probe.returned
    /\ probe.args = <<640, 480>>
    /\ probe.result = [height |-> 320, width |-> 320, x |-> 160, y |-> 80]

\* ------------------------------------------------------ render size (C28)

RenderSized == probe.fn = "getVideoRenderSize" /\ probe.returned

Box == [height |-> F(probe.args.offsetHeight),
        width |-> F(probe.args.offsetWidth)]

Frame == [height |-> F(probe.args.videoHeight),
          width |-> F(probe.args.videoWidth)]

\* a is at most b in both dimensions
Within(a, b) == FLe(a.width, b.width) /\ FLe(a.height, b.height)

\* C28 as stated: for contain, cover, fill and scale-down the render size is
\* at most the container size in width and height, and under scale-down
\* also at most the source size.
RenderSizeWithinContainer ==
    RenderSized
        => /\ probe.args.objectFit \in {"contain", "cover", "fill",
                                         "scale-down"}
                  => Within(probe.result, Box)
           /\ probe.args.objectFit = "scale-down"
                  => Within(probe.result, Frame)

\* b with two units added in the last place of the significand
Slack(b) == FMul(b, Fl(HalfRadix + 2, HalfRadix, 0))

\* a is at most b in both dimensions, up to the rounding of one product
\* or quotient
WithinRounded(a, b) ==
    FLe(a.width, Slack(b.width)) /\ FLe(a.height, Slack(b.height))

\* C28 amended: for positive container and source sizes, the render size
\* is at most the container size under contain, fill and scale-down up to
\* floating-point rounding, and under scale-down at most the source size;
\* under cover it is at least the container size up to rounding and equal
\* to it in one dimension; under fill it is the container size.
RenderSizeFitsPolicy ==
    RenderSized
        => /\ probe.args.objectFit \in {"contain", "fill", "scale-down"}
                  => WithinRounded(probe.result, Box)
           /\ probe.args.objectFit = "scale-down"
                  => Within(probe.result, Frame)
           /\ probe.args.objectFit = "fill" => probe.result = Box
           /\ probe.args.objectFit \in {"contain", "cover"}
                  => \/ probe.result.width = Box.width
                     \/ probe.result.height = Box.height
           /\ probe.args.objectFit = "cover"
                  => WithinRounded(Box, probe.result)

\* a frame rendered under cover that is wider than its box
CoverOverflowsBox ==
    /\ RenderSized
    /\ probe.args.objectFit = "cover"
    /\ FLt(Box.width, probe.result.width)
    /\ probe.result.height = Box.height

\* a frame of the proportions of its box, rendered under contain, that
\* exceeds the box by rounding alone
ContainExceedsByRounding ==
    /\ RenderSized
    /\ probe.args.objectFit = "contain"
    /\ probe.args.offsetWidth = probe.args.videoWidth
    /\ probe.args.offsetHeight = probe.args.videoHeight
    /\ ~Within(probe.result, Box)

\* ------------------------------------------- geometry round trip (C27)

\* one translation has been applied to the result of the other one
RoundTripped ==
    /\ probe.fn \in {"translateAreaToVideoSource",
                      "translateAreaToVideoRender"}
    /\ probe.returned
    /\ probe.args.origin # <<>>

Origin == probe.args.origin[1]

\* C27 as stated: translateAreaToVideoSource(translateAreaToVideoRender(A))
\* and translateAreaToVideoRender(translateAreaToVideoSource(A)) equal A in
\* x, y, width and height, mirrored or not.
RoundTripIsIdentity ==
    RoundTripped
        => /\ probe.result.x = Origin.x
           /\ probe.result.y = Origin.y
           /\ probe.result.width = Origin.width
           /\ probe.result.height = Origin.height

RECURSIVE GreatestOf(_)
GreatestOf(values) ==
    IF Len(values) = 1 THEN FAbs(values[1])
    ELSE FMax(FAbs(Head(values)), GreatestOf(Tail(values)))

\* the largest magnitude among the coordinates of the round trip, in the
\* larger of the two scales
Magnitude ==
    LET video == probe.args.video
        size == getVideoRenderSize(video)
        offset == getVideoRenderOffset(video, size)
        width == F(video.videoWidth)
        height == F(video.videoHeight)
        there == probe.args.area
        largest == GreatestOf(<<F(video.offsetWidth), F(video.offsetHeight),
                                width, height, size.width, size.height,
                                offset.x, offset.y,
                                Origin.x, Origin.y, Origin.width,
                                Origin.height,
                                there.x, there.y, there.width, there.height>>)
        factor == GreatestOf(<<F(1), FDiv(width, size.width),
                               FDiv(size.width, width),
                               FDiv(height, size.height),
                               FDiv(size.height, height)>>)
    IN  FMul(largest, factor)

\* a and b differ by at most Tolerance units in the last place of a number
\* of the given magnitude
Near(a, b, magnitude) ==
    FLe(FAbs(FSub(a, b)), FMul(magnitude, Fl(Tolerance, HalfRadix, 0)))

\* C27 amended: for non-zero source and render dimensions the two
\* translations are inverse to each other up to floating-point rounding:
\* each of x, y, width and height of the round trip differs from that of A
\* by at most a few units in the last place of the largest coordinate
\* involved, mirrored or not.
RoundTripWithinRounding ==
    RoundTripped
        => /\ Near(probe.result.x, Origin.x, Magnitude)
           /\ Near(probe.result.y, Origin.y, Magnitude)
           /\ Near(probe.result.width, Origin.width, Magnitude)
           /\ Near(probe.result.height, Origin.height, Magnitude)

\* an area of a mirrored video came back from the page changed by rounding
MirroredRoundTripRounded ==
    /\ RoundTripped
    /\ probe.fn = "translateAreaToVideoSource"
    /\ probe.args.video.isMirrored
    /\ probe.result # Origin

\* --------------------------------------- BarcodeDecoder.onDecode (C29)

\* the worker has answered a posted frame with a detected barcode
BarcodeAnswered ==
    \E i \in 1..Len(decoder.responses) : decoder.responses[i] \in Symbols

\* C29: after decodeFrame posts a frame and the worker answers with a
\* detected barcode, onDecode is eventually invoked with it and isProcessed
\* is cleared, so that later frames are scanned too.
DecodedFrameReachesOnDecode ==
    \A symbol \in Symbols :
        (\E i \in 1..Len(decoder.responses) : decoder.responses[i] = symbol)
            ~> (\/ decoder.isDestroyed
                \/ /\ Has(decoder.onDecode, symbol)
                   /\ ~decoder.isProcessed)

\* the flag that decodeFrame sets is never cleared, so one frame at most
\* is ever posted
OnlyFirstFramePosted ==
    /\ decoder.posted <= 1
    /\ decoder.posted = 1 => decoder.isProcessed
    /\ decoder.onDecode = <<>>

\* the response with a barcode was dispatched to no listener and the
\* decoder keeps skipping frames of a playing video
BarcodeResponseUnhandled ==
    /\ decoder.last = "frame:skip"
    /\ decoder.isProcessed
    /\ decoder.srcObject /\ ~decoder.paused
    /\ decoder.posted = 1 /\ decoder.asked = 0 /\ decoder.responses = <<>>
    /\ decoder.onDecode = <<>>

\* ------------------------------------------------ quiescence (C31)
TickOps == {"tick:end", "tick:skip", "tick:admit"}

\* stop() or destroy() has taken effect and no start() call is in progress
Stopped == (isDestroyed \/ isVideoActive = FALSE) /\ Count(starts) = 0

\* no frame callback is pending and no decode() call is in flight, with its
\* listener and timer
Quiescent ==
    ticks["scheduled"] = 0 /\ ticks["ready"] = 0 /\ ticks["response"] = 0

Admitted ==
    ticks["ready"] + ticks["response"] + ticks["onSuccess"]
        + ticks["onFailure"]

\* C32: onBeforeDecode and onDecode strictly alternate, starting with
\* onBeforeDecode: a step runs onBeforeDecode only when every admitted
\* frame has had its onDecode, a step runs onDecode once and only for the
\* one frame that is admitted, whatever the outcome of its decode; and an
\* admitted frame gets its onDecode unless the promise of the caller's
\* callback stays pending.
DecodeHooksAlternate ==
    /\ [][(Has(fired', "onBeforeDecode")
              => (/\ Occurrences(fired', "onBeforeDecode") = 1
                  /\ ~Has(fired', "onDecode")
                  /\ Admitted = 0
                  /\ Admitted' = 1))
          /\ (Has(fired', "onDecode")
              => (/\ Occurrences(fired', "onDecode") = 1
                  /\ Admitted = 1
                  /\ Admitted' = 0))
          /\ (Admitted' # Admitted
              => (Has(fired', "onBeforeDecode") \/ Has(fired', "onDecode")))
          /\ (op' = "tick:admit" <=> Has(fired', "onBeforeDecode"))]_vars
    /\ (op = "tick:admit")
           ~> (Has(fired, "onDecode")
               \/ ticks["onSuccess"] + ticks["onFailure"] > 0)

\* the post-decode hook ran for a frame whose success callback threw
HookAfterCallbackThrew ==
    /\ op \in {"decode:symbol:throw", "onSuccess:rejected"}
    /\ Has(fired, "onDecode")
    /\ Admitted = 0

\* ------------------------------------- restart after a hard failure (C33)
\* the scanner is started, not paused, with a ready video, and no call of
\* the caller's callback is pending
Scanning ==
    /\ isVideoActive /\ ~isVideoPaused /\ ~isDestroyed
    /\ videoReady
    /\ ticks["onSuccess"] + ticks["onFailure"] = 0

\* a hard failure was recorded and the scanner was stopped afterwards
StoppedAfterHardFailure == isWorkerLoadFailure /\ isVideoActive = FALSE

\* C33: once isWorkerLoadFailure is set no frame is admitted while the
\* scanner goes on; and after stop() followed by a start() that leaves the
\* scanner scanning for good, a frame is admitted again.
HardFailureHaltsUntilRestart ==
    /\ [][(isWorkerLoadFailure /\ isVideoActive /\ isVideoActive')
              => op' # "tick:admit"]_vars
    /\ (<>[]Scanning) => (StoppedAfterHardFailure ~> (op = "tick:admit"))

\* the restarted scanner skips a frame of a ready video although no decode
\* is in flight
RestartedSchedulerBlocked ==
    /\ op = "tick:skip"
    /\ isWorkerLoadFailure
    /\ Scanning
    /\ Admitted = 0
    /\ ~rateLimited

\* --------------------------------------------- a skipping tick (C34)
\* less than 1000 / scanRate ms on the clock since decodeFrameTs, or since
\* the admission of the last frame
TooSoon ==
    \/ elapsed * scanRate < 1000
    \/ sinceAdmit >= 0 /\ sinceAdmit * scanRate < 1000

\* C34: a tick of a started scanner that finds the rate limit not passed,
\* or a decode in flight, or the video not ready, only requests the next
\* frame callback: isDecodeFrameProcessed, decodeFrameTs and scanArea keep
\* their values, no hook fires, nothing is captured and nothing is posted.
SkippingTickOnlyReschedules ==
    [][(/\ op' \in TickOps
        /\ ~(isDestroyed \/ isVideoActive = FALSE)
        /\ (TooSoon \/ isDecodeFrameProcessed \/ Admitted > 0
                \/ ~videoReady))
          => (/\ op' = "tick:skip"
              /\ fired' = <<"requestFrame">>
              /\ ticks' = ticks
              /\ isDecodeFrameProcessed' = isDecodeFrameProcessed
              /\ elapsed' = elapsed
              /\ scanArea' = scanArea
              /\ sinceAdmit' = sinceAdmit)]_vars

\* a tick skipped only because the video was not ready, with a scan area
\* that is not the one of the present frame size
SkippedWhileNotReady ==
    /\ op = "tick:skip"
    /\ ~videoReady /\ ~isDecodeFrameProcessed /\ ~rateLimited
    /\ scanArea # getScanArea(videoSize)

\* ------------------------------------------------ lifecycle hooks (C35)
\* a fires once in seq, and before b
Precedes(seq, a, b) ==
    /\ Occurrences(seq, a) = 1
    /\ Occurrences(seq, b) = 1
    /\ \E i, j \in 1..Len(seq) : i < j /\ seq[i] = a /\ seq[j] = b

HookStep ==
    /\ Count(starts') > Count(starts) => fired' = <<"onBeforeStart">>
    /\ Has(fired', "onStart")
          => (/\ Occurrences(fired', "onStart") = 1
              /\ Count(starts) > 0
              /\ Count(starts') = Count(starts) - 1
              /\ isVideoActive' /\ ~isVideoPaused' /\ srcObject' # 0)
    /\ Has(fired', "onPause")
          => (/\ Precedes(fired', "onBeforePause", "onPause")
              /\ isVideoPaused' /\ srcObject' = 0)
    /\ Has(fired', "onStop")
          => (/\ Precedes(fired', "onBeforeStop", "onStop")
              /\ isVideoActive' = FALSE /\ srcObject' = 0)
    /\ ~Has(fired', "onCreate")

\* C35: onCreate fires once, before any other hook; every onStart belongs
\* to a start() call in progress, which began with onBeforeStart, and
\* observes isVideoActive, not isVideoPaused and a stream attached; every
\* onPause follows onBeforePause and observes isVideoPaused and no stream;
\* every onStop follows onBeforeStop and observes isVideoActive = false and
\* no stream.
HooksObserveMatchingState ==
    /\ fired = <<"onCreate">>
    /\ [][HookStep]_vars

\* onStart fired for a start() that resumed a scanner which had admitted
\* frames before, while another start() call is still in progress
StartedAgainHookFired ==
    /\ op = "start:done"
    /\ Has(fired, "onStart")
    /\ sinceAdmit >= 0
    /\ Count(starts) > 0

\* --------------------------------------------- one scheduler loop (C36)
\* C36: at most one frame-scheduler loop (a tick invocation with a pending
\* frame callback or suspended at an await) is alive per scanner instance,
\* after any sequence of start / pause / stop calls.
AtMostOneSchedulerLoop == Count(ticks) <= 1

\* ------------------------------------ progress of BarcodeScanner (C37)
\* the video of the class-based scanner plays a stream and a loop is alive
Playing ==
    /\ scanner.srcObject /\ ~scanner.paused /\ ~scanner.isDestroyed
    /\ scanner.requested > 0 \/ scanner.decoding

\* C37: if the video of a BarcodeScanner stays playing and ready, frames
\* keep being admitted, however often the frame callbacks fire.
ScannerAdmitsAtAnyFrameRate ==
    (<>[]Playing) => ([]<>(scanner.last = "frame:admit"))

\* a frame callback skipped a frame of a playing video with no decode in
\* flight, less than 1000 / scanRate ms after the callback before it
FrameSkippedForRate ==
    /\ scanner.last = "frame:skip"
    /\ Playing
    /\ ~scanner.isDecodeFrameProcessed /\ ~scanner.decoding
    /\ scanner.elapsed = 0

\* ------------------------------------ exceptions during a tick (C38)
\* the steps in which a caller's callback or a hook has thrown
ThrowOps ==
    {"decode:symbol:throw", "decode:null:throw", "onSuccess:rejected",
     "onFailure:rejected", "tick:admit:hookThrow", "ready:hookThrow",
     "response:hookThrow", "onSuccess:hookThrow", "onFailure:hookThrow"}

\* C38: after an exception of handleDecodeSuccess, handleDecodeFailure,
\* onBeforeDecode or onDecode during a tick the in-flight flag is cleared
\* and a frame callback is requested; isDecodeFrameProcessed is true only
\* while a decode call or its callback is pending.
ExceptionsNeverStall ==
    /\ op \in ThrowOps
          => (/\ isDecodeFrameProcessed = FALSE
              /\ Has(fired, "requestFrame")
              /\ ticks["scheduled"] >= 1)
    /\ isDecodeFrameProcessed => Admitted > 0

\* the in-flight flag is set on a scanning scanner with no decode and no
\* callback pending, after a hook threw
StalledByThrowingHook ==
    /\ isDecodeFrameProcessed
    /\ Admitted = 0
    /\ isVideoActive /\ ~isDestroyed /\ videoReady
    /\ Has(fired, "throw")

\* ------------------------------------------- no scan while paused (C39)
\* C39: while isVideoPaused is true no frame is admitted and no decode
\* request is posted to the worker, in every interleaving of pause(),
\* start() and frame callbacks.
NoScanWhilePaused ==
    isVideoPaused => (op # "tick:admit" /\ ~Has(fired, "postMessage"))

\* a frame was admitted while isVideoPaused was set, in the window in which
\* start() has attached a stream and awaits play()
AdmittedWhilePaused ==
    /\ op = "tick:admit"
    /\ isVideoPaused
    /\ starts["play"] > 0

\* pause() ran while the decode of an admitted frame waits for the worker
\* to be ready; the request is posted when it is
PausedWithDecodeAwaitingWorker ==
    /\ op = "pause"
    /\ isVideoPaused
    /\ ticks["ready"] > 0
    /\ workerReady.settled = "pending"

\* ------------------------------------ scan area of a frame (C40)
\* C40: state.scanArea does not change between the capture of a frame and
\* the translation of its decode result, so the origin added to the corner
\* points is that of the area the frame was captured with.
ScanAreaKeptWhileDecoding ==
    [][(ticks["ready"] + ticks["response"] > 0)
          => scanArea' = scanArea]_vars

\* start() has completed with a decode in flight, on a video whose frame
\* size gives another scan area than the one of the first stream
RestartedWhileDecoding ==
    /\ op = "start:done"
    /\ ticks["ready"] + ticks["response"] > 0
    /\ scanArea = getScanArea(<<480, 640>>)

====
